---- MODULE Spec2Model ----
(***************************************************************************)
(* contrib.club: the aggregation pass of src/routes/+page.server.ts (load) *)
(* with its three cache tiers and the rate-limit guard.                    *)
(*                                                                         *)
(* Time is in milliseconds, as in the source (Date.now()); the clock moves *)
(* in steps of Tick.  A pass is one invocation of load; passes of the same *)
(* worker process share memoryCache and rateLimitUntil (module globals),   *)
(* all workers share the D1 table github_cache.                            *)
(***************************************************************************)
EXTENDS Integers, Sequences, FiniteSets, TLC

\* ---------------------------------------------------------------- bounds
MaxTicks == 2        \* the clock runs from T0 to T0 + MaxTicks * Tick
MaxPasses == 2       \* invocations of load started in one behaviour
MaxWalks == 1        \* the same, where load is followed call by call
MaxWalkTicks == 1    \* and the ticks of the clock there

Tick == 7500 * 60    \* 7.5 minutes: CACHE_TTL is two ticks
Procs == {"w1", "w2"}   \* worker processes
Slots == {1, 2}         \* invocations of load in flight at the same time

\* ------------------------------------------------------- program constants
CACHE_TTL == 1000 * 60 * 15
RATE_LIMIT_COOLDOWN == 1000 * 60 * 15
D1_CACHE_KEY == "github-cache"

\* Date.now() of the first state: later than one TTL, so that the zero
\* timestamps the module starts with are stale, as they are in production.
T0 == 2 * CACHE_TTL

VARIABLES
  clock,             \* Date.now()
  fallbackRepoUrls,  \* normalized lines of $lib/fallback.txt (bundled, static)
  canUseD1,          \* per worker: a D1 binding is configured and enabled
  memoryCache,       \* per worker: the module-level memoryCache
  rateLimitUntil,    \* per worker: the module-level rateLimitUntil
  github_cache,      \* rows of the D1 table github_cache (at most one, id = D1_CACHE_KEY)
  pass,              \* per slot: the locals of one invocation of load
  lastReturn,        \* the locals of the last invocation that returned, at its return
  started,           \* invocations of load started so far
  last429,           \* per worker: the last pass that made upstream calls saw a 429
                     \* and no pass has started since (history variable)
  repo_activity_cache,  \* rows of the D1 table repo_activity_cache for one repo URL
  act,               \* the locals of load that hold the commit activity of that repo
  merge,             \* the locals of load that hold the repositories and their totals
  blogs,             \* rows of the D1 table blogs, by slug
  react,             \* requests to /api/blogs/[slug]/reaction and what they answered
  wiki,              \* the locals of load that hold the blog posts
  norm,              \* lines of $lib/fallback.txt and what normalizeRepoUrl makes of them
  contact            \* rows of the D1 table contact_requests and the requests for one

vars == <<clock, fallbackRepoUrls, canUseD1, memoryCache, rateLimitUntil,
          github_cache, pass, lastReturn, started, last429,
          repo_activity_cache, act, merge, blogs, react, wiki, norm, contact>>

\* the state that the cache tiers and the rate-limit guard do not read
beyondLoad == <<repo_activity_cache, act, merge, blogs, react, wiki, norm, contact>>

\* ---------------------------------------------------------------- payloads
NullPayload == [kind |-> "null", id |-> 0, orgRepos |-> <<>>]

\* the payload a pass assembles from upstream (CachedPayload, l.1164-1173)
payloadOf(id) == [kind |-> "live", id |-> id, orgRepos |-> <<>>]

\* the placeholder payload of the cooldown branch (l.454-473)
fallbackPayload(urls) == [kind |-> "fallback", id |-> 0, orgRepos |-> urls]

\* JSON.stringify / JSON.parse of the payload column: text either parses to
\* the value it was made from or does not parse at all
JsonStringify(p) == [parses |-> TRUE, value |-> p]
GarbageText == [parses |-> FALSE, value |-> NullPayload]
JsonParses(text) == text.parses
JsonParse(text) == text.value

FallbackLists == {<<>>, <<"https://github.com/contributor-club/contrib.club">>}

\* HTTP statuses an upstream call can answer with
Statuses == {200, 403, 429, 500}
IsRateLimitStatus(status) == status = 403 \/ status = 429

\* ------------------------------------------------------------------- state
IdlePass ==
  [pc |-> "idle", proc |-> "w1", id |-> 0, now |-> 0, nowFinal |-> 0,
   persistedPayload |-> NullPayload, persistedTimestamp |-> 0,
   persistedRateUntil |-> 0, rateLimited |-> FALSE,
   ret |-> 0, result |-> NullPayload,
   \* what the call-by-call walk keeps of the data fetched so far
   hasMembers |-> FALSE,   \* orgMembersList.length > 0
   haveRepos |-> FALSE,    \* orgRepos or memberRepos is not empty
   wiki |-> FALSE,         \* wikiBlogEntries is not empty
   rows |-> FALSE,         \* blogMap holds rows of the D1 table blogs
   n |-> 0,                \* i of fetchCommitActivityWithRetry, page - 1 of fetchDailyCommitsForWindow
   \* history fields, read by no action
   after429 |-> FALSE,     \* at its start the guard was cooling after a pass that saw a 429
   cooling |-> FALSE,      \* the condition of l.443 held
   seen |-> {},            \* the 403/429 statuses upstream calls of this pass answered
   threw |-> FALSE,        \* an exception was thrown in this pass
   calledUpstream |-> FALSE]

\* repoStats[repoUrl].activity: absent, or a series of commits per day
Absent == [present |-> FALSE, series |-> <<>>]
Attached(series) == [present |-> TRUE, series |-> series]

\* activityCache.get(repoUrl): undefined, or { activity, timestamp }
NoEntry == [has |-> FALSE, activity |-> <<>>, timestamp |-> 0]
Entry(activity, timestamp) == [has |-> TRUE, activity |-> activity, timestamp |-> timestamp]

\* the return value of fetchCommitActivityWithRetry (l.98, l.101, l.103), if
\* it has returned
NoResult == [returned |-> FALSE, ok |-> FALSE, status |-> 0]
Result(ok, status) == [returned |-> TRUE, ok |-> ok, status |-> status]

\* the locals of l.791-975 for the one repo, between two invocations of load
IdleActivity ==
  [pc |-> "idle", proc |-> "w1", activityTableReady |-> FALSE, activityFetchTime |-> 0,
   cached |-> NoEntry, activity |-> Absent,
   n |-> 0,                \* i of fetchCommitActivityWithRetry, page - 1 of fetchDailyCommitsForWindow
   buckets |-> <<>>,       \* buckets of fetchDailyCommitsForWindow
   \* history fields, read by no action
   passes |-> 0,           \* invocations of load so far
   jumped |-> FALSE,       \* the clock has moved since the last invocation
   calledStats |-> FALSE,    \* a GET .../stats/commit_activity was made in this invocation
   calledCommits |-> FALSE,  \* a GET .../commits was made in this invocation
   primary |-> "none",     \* how fetchCommitActivityWithRetry ended in this invocation
   entered |-> FALSE,      \* the repo was pushed to repoUrlsNeedingActivity
   weeks |-> <<>>,         \* the weeks the stats endpoint delivered
   listingFailed |-> FALSE,  \* a commit listing request was answered non-2xx or rejected
   emptyAt |-> -1,         \* activityFetchTime of the last invocation that ended with
                           \* an empty series, -1 when the last one did not
   obtainedAt |-> T0,      \* activityFetchTime of the invocation that got the series of
                           \* the row from upstream
   requests |-> <<>>,      \* the status of every GET .../stats/commit_activity that
                           \* fetchCommitActivityWithRetry has made and not returned after
   \* the next three until the next request of the invocation is made
   lastStatus |-> 0,       \* lastStatus of l.92, 0 for a fetch that rejected
   slept |-> 0,            \* the ms that were slept after the last answer
   result |-> NoResult,    \* what fetchCommitActivityWithRetry returned
   pages |-> <<>>,         \* every GET .../commits of this invocation
   counted |-> <<>>]       \* the items of the pages that were read

\* an object without entries (l.379)
NoStats == [url \in {} |-> [stars |-> 0, forks |-> 0]]

\* the locals of l.377-384, before the first request of an invocation of load
IdleMerge ==
  [pc |-> "idle", stars |-> 0, forks |-> 0, repoStats |-> NoStats, orgMembers |-> 0,
   orgMembersList |-> <<>>, memberDetails |-> <<>>, orgRepos |-> <<>>, memberRepos |-> <<>>,
   payload |-> [githubStats |-> [stars |-> 0, forks |-> 0, contributors |-> 0],
                repoStats |-> NoStats, orgRepos |-> <<>>, memberRepos |-> <<>>,
                orgMembers |-> <<>>, memberDetails |-> <<>>],
   \* history fields, read by no action
   loaded |-> FALSE,       \* loaded of l.569
   listed |-> <<>>,        \* reposData of the listing that loaded
   detailed |-> {},        \* fallback URLs whose repository detail request was answered 2xx
   fetched |-> <<>>,       \* fallbackRepos of l.682
   found |-> <<>>,         \* the repositories of all topic searches, member by member
   foundBy |-> <<>>,       \* the same, an array per member
   before |-> [stars |-> 0, forks |-> 0]]  \* stars and forks when l.772 is reached

\* what is kept of an invocation that has returned
Returned(r) ==
  [id |-> r.id, proc |-> r.proc, ret |-> r.ret, result |-> r.result, threw |-> r.threw,
   calledUpstream |-> r.calledUpstream]

InitBase ==
  /\ clock = T0
  /\ fallbackRepoUrls \in FallbackLists
  /\ canUseD1 \in {f \in [Procs -> BOOLEAN] : f["w1"]}
  /\ memoryCache = [q \in Procs |-> [timestamp |-> 0, payload |-> NullPayload]]
  /\ rateLimitUntil = [q \in Procs |-> 0]
  /\ pass = [s \in Slots |-> IdlePass]
  /\ lastReturn = Returned(IdlePass)
  /\ started = 0
  /\ last429 = [q \in Procs |-> FALSE]

\* no activity is cached, no invocation of load has looked at the repo
InitNoActivity ==
  /\ repo_activity_cache = <<>>
  /\ act = IdleActivity

\* no invocation of load has listed repositories
InitNoMerge == merge = IdleMerge

\* a table without rows
NoRows == [slug \in {} |-> 0]

\* requests to the reaction endpoint in flight at the same time
ReqSlots == {1, 2}

\* an object without properties of its own
NoProperties == [key \in {} |-> 0]

\* no emoji: null as userReaction, '' as emoji of the request
NoEmoji == <<>>

\* a request before it is made; status 0 stands for no response yet
NoAnswer == [status |-> 0, counts |-> NoProperties, userReaction |-> NoEmoji,
               limited |-> FALSE]
IdleRequest ==
  [pc |-> "idle", ip |-> "", slug |-> "", emoji |-> NoEmoji,
   row |-> [reactions |-> [null |-> TRUE, parses |-> FALSE,
                           value |-> [counts |-> NoProperties, ipMap |-> NoProperties]]],
   response |-> NoAnswer]

\* a request as the step that answers it leaves it
NoRequest ==
  [method |-> "", body |-> [isString |-> FALSE, text |-> <<>>], client |-> FALSE,
   found |-> FALSE, response |-> NoAnswer]

\* no request to the reaction endpoint has been made
IdleReact ==
  [req |-> [s \in ReqSlots |-> IdleRequest],
   serial |-> TRUE,        \* the clients make their requests one at a time
   \* history fields, read by no action
   posts |-> 0,            \* POST requests made so far
   waits |-> 0,            \* advances of the clock so far
   overlapped |-> FALSE,   \* a POST has read its row while another held one unwritten
   was |-> NoProperties,   \* by actor key: the entry that the actor's last change took
                           \* away, and whether it was a toggle-off that took it
   last |-> NoRequest]     \* the request that the last step answered, if it did

\* no invocation of load has read the wiki
IdleWiki ==
  [pc |-> "idle",
   proc |-> "w1",          \* the worker of the invocation
   source |-> <<>>,        \* the markdown files of the wiki, as fetched
   wikiBlogEntries |-> <<>>,
   blogMap |-> <<>>,       \* the entries of the Map, in the order of their insertion
   at |-> 1,               \* the entry that the seeding loop is at
   slug |-> <<>>,          \* slug of l.1108 once the while loop has assigned it
   blogPosts |-> <<>>,     \* as the last invocation returned them
   passes |-> 0,           \* invocations so far
   before |-> NoRows,      \* the table when the invocation began (history)
   loaded |-> <<>>,        \* the Map when the table had been read (history)
   clean |-> FALSE,        \* the invocation read the table and every INSERT ran (history)
   settled |-> FALSE]      \* the one before it did, from the same files (history)

\* normalizeRepoUrl returns null
NullUrl == [null |-> TRUE, url |-> <<>>]

\* no line of the bundled list has been read and no value normalized
IdleNorm ==
  [file |-> <<>>,        \* the lines of $lib/fallback.txt
   loaded |-> FALSE,     \* load has read them into fallbackRepoUrls
   applied |-> FALSE,    \* normalizeRepoUrl has been called
   value |-> <<>>,       \* with this argument
   result |-> NullUrl]   \* and has returned this

\* a POST to the contact endpoint before it is made; status 0 stands for no
\* response yet
IdlePost == [pc |-> "idle", name |-> <<>>, email |-> <<>>, github_url |-> <<>>, status |-> 0]

\* no contact request is stored, none is being made
IdleContact ==
  [rows |-> <<>>,          \* the rows of contact_requests, in the order of their INSERT
   req |-> [s \in ReqSlots |-> IdlePost],
   posts |-> 0,            \* POST requests so far
   overlapped |-> FALSE]   \* a POST has looked for a duplicate while another was
                           \* between its look and its INSERT (history)

\* the state of the blogs, of the reaction endpoint and of the normalizer
\* where none of them is looked at
InitNoBlogs ==
  /\ blogs = NoRows
  /\ react = IdleReact
  /\ wiki = IdleWiki
  /\ norm = IdleNorm
  /\ contact = IdleContact

\* the state that the steps from the members to the payload leave alone
beyondMerge == <<blogs, react, wiki, norm, contact>>

Init == InitBase /\ InitNoActivity /\ InitNoMerge /\ InitNoBlogs /\ github_cache = <<>>

\* the same, with a github_cache row whose payload text does not parse
InitCalls ==
  /\ InitBase
  /\ InitNoActivity
  /\ InitNoMerge
  /\ InitNoBlogs
  /\ github_cache \in {<<>>, <<[payload |-> GarbageText, timestamp |-> T0 - Tick,
                                 rate_limit_until |-> 0]>>}

\* ----------------------------------------------------------------- helpers
\* mutant of IsFresh: a cache aged exactly CACHE_TTL still counts as fresh
IsFreshInclusive(timestamp, t) == t - timestamp <= CACHE_TTL

\* "now - timestamp < CACHE_TTL" (l.444, 448, 1177, 1181)
IsFresh(timestamp, t) == t - timestamp < CACHE_TTL

\* mutant of IsCoolingDown: only the persisted rate_limit_until is consulted
IsCoolingDownPersisted(r) == r.now < r.persistedRateUntil

\* l.443: if (now < rateLimitUntil || now < persistedRateUntil)
IsCoolingDown(r) ==
  r.now < rateLimitUntil[r.proc] \/ r.now < r.persistedRateUntil

\* a return statement of load, at the given source line
Return(r, line, value) ==
  [r EXCEPT !.pc = "done", !.ret = line, !.result = value]

\* l.442-476: the cooldown branch, entered with the locals r
Guard(r) ==
  LET mem == memoryCache[r.proc]
      c   == [r EXCEPT !.cooling = TRUE]
  IN  IF ~IsCoolingDown(r)
        THEN [r EXCEPT !.pc = "members"]
      ELSE IF mem.payload # NullPayload /\ IsFresh(mem.timestamp, r.now)
        THEN Return(c, 446, mem.payload)
      ELSE IF r.persistedPayload # NullPayload /\ IsFresh(r.persistedTimestamp, r.now)
        THEN Return(c, 450, r.persistedPayload)
      ELSE IF Len(fallbackRepoUrls) > 0
        THEN Return(c, 474, fallbackPayload(fallbackRepoUrls))
      ELSE [c EXCEPT !.pc = "members"]

\* mutant of PreviousCache: freshness is taken at the start of the pass (now),
\* as in the cooldown branch, not at its end (nowFinal)
PreviousCacheAtStart(r, nowFinal) ==
  LET mem == memoryCache[r.proc]
  IN  IF r.rateLimited /\ mem.payload # NullPayload /\ IsFresh(mem.timestamp, r.now)
        THEN [line |-> 1179, payload |-> mem.payload]
      ELSE IF r.rateLimited /\ r.persistedPayload # NullPayload
                /\ IsFresh(r.persistedTimestamp, r.now)
        THEN [line |-> 1183, payload |-> r.persistedPayload]
      ELSE [line |-> 0, payload |-> NullPayload]

\* l.1177-1184: the previous cache a pass serves instead of the payload it has
\* assembled, with the line of the return statement; line 0 when there is none
PreviousCache(r, nowFinal) ==
  LET mem == memoryCache[r.proc]
  IN  IF r.rateLimited /\ mem.payload # NullPayload /\ IsFresh(mem.timestamp, nowFinal)
        THEN [line |-> 1179, payload |-> mem.payload]
      ELSE IF r.rateLimited /\ r.persistedPayload # NullPayload
                /\ IsFresh(r.persistedTimestamp, nowFinal)
        THEN [line |-> 1183, payload |-> r.persistedPayload]
      ELSE [line |-> 0, payload |-> NullPayload]

\* mutant of Tripped: the cooldown runs from the start of the pass (now)
TrippedFromStart(r, nowFinal) ==
  IF r.rateLimited THEN r.now + RATE_LIMIT_COOLDOWN ELSE rateLimitUntil[r.proc]

\* l.1186-1188: rateLimitUntil after the pass with locals r has ended at nowFinal
Tripped(r, nowFinal) ==
  IF r.rateLimited THEN nowFinal + RATE_LIMIT_COOLDOWN ELSE rateLimitUntil[r.proc]

\* mutant of Stored: the memory cache keeps what it holds when that is of a
\* pass that started later
StoredIfNewer(r) ==
  IF memoryCache[r.proc].timestamp > r.now THEN memoryCache[r.proc]
  ELSE [payload |-> payloadOf(r.id), timestamp |-> r.now]

\* l.1190-1192: memoryCache after the pass with locals r has stored its payload
Stored(r) == [payload |-> payloadOf(r.id), timestamp |-> r.now]

\* the invocation in slot s goes on with locals r, or has returned
Continue(s, r) ==
  IF r.pc = "done"
    THEN /\ pass' = [pass EXCEPT ![s] = IdlePass]
         /\ lastReturn' = Returned(r)
    ELSE /\ pass' = [pass EXCEPT ![s] = r]
         /\ UNCHANGED lastReturn

\* ----------------------------------------------------------------- actions
Tick_ ==
  /\ clock < T0 + MaxTicks * Tick
  /\ clock' = clock + Tick
  /\ UNCHANGED beyondLoad
  /\ UNCHANGED <<fallbackRepoUrls, canUseD1, memoryCache, rateLimitUntil,
                 github_cache, pass, lastReturn, started, last429>>

\* l.347-418 (and, without D1, l.442-476 in the same synchronous run)
Start(s) ==
  /\ pass[s].pc = "idle"
  /\ \A s2 \in Slots : s2 < s => pass[s2].pc # "idle"
  /\ started < MaxPasses
  /\ \E q \in Procs :
       LET r0 == [IdlePass EXCEPT !.proc = q, !.id = started + 1, !.now = clock,
                                  !.after429 = last429[q] /\ clock < rateLimitUntil[q]]
       IN  /\ Continue(s, IF canUseD1[q] THEN [r0 EXCEPT !.pc = "readD1"] ELSE Guard(r0))
           /\ last429' = [last429 EXCEPT ![q] = FALSE]
  /\ started' = started + 1
  /\ UNCHANGED beyondLoad
  /\ UNCHANGED <<clock, fallbackRepoUrls, canUseD1, memoryCache, rateLimitUntil,
                 github_cache>>

\* l.420-440: the row is read; a query error or unparseable text is logged
ReadD1(s) ==
  LET r == pass[s] IN
  /\ r.pc = "readD1"
  /\ \E queryFails \in BOOLEAN :
       LET row == IF Len(github_cache) > 0 THEN github_cache[1]
                  ELSE [payload |-> GarbageText, timestamp |-> 0, rate_limit_until |-> 0]
           got == ~queryFails /\ Len(github_cache) > 0 /\ JsonParses(row.payload)
       IN  pass' = [pass EXCEPT ![s] =
                      IF got
                        THEN [r EXCEPT !.pc = "guard",
                                       !.persistedPayload = JsonParse(row.payload),
                                       !.persistedTimestamp = row.timestamp,
                                       !.persistedRateUntil = row.rate_limit_until]
                        ELSE [r EXCEPT !.pc = "guard"]]
  /\ UNCHANGED beyondLoad
  /\ UNCHANGED <<clock, fallbackRepoUrls, canUseD1, memoryCache, rateLimitUntil,
                 github_cache, lastReturn, started, last429>>

\* l.442-476 after the D1 read has returned
GuardStep(s) ==
  /\ pass[s].pc = "guard"
  /\ Continue(s, Guard(pass[s]))
  /\ UNCHANGED beyondLoad
  /\ UNCHANGED <<clock, fallbackRepoUrls, canUseD1, memoryCache, rateLimitUntil,
                 github_cache, started, last429>>

\* l.478-1173 in one step: the upstream calls of the pass.  flagged is the
\* worst status answered to a call whose handler sets rateLimited, silent the
\* worst status answered to a call whose handler does not (Walk is the same
\* code call by call).
Aggregated(r, flagged, silent) ==
  [r EXCEPT !.pc = "finish",
            !.rateLimited = IsRateLimitStatus(flagged),
            !.calledUpstream = TRUE]

Aggregate(s) ==
  /\ pass[s].pc = "members"
  /\ \E flagged \in Statuses, silent \in Statuses :
       pass' = [pass EXCEPT ![s] = Aggregated(pass[s], flagged, silent)]
  /\ UNCHANGED beyondLoad
  /\ UNCHANGED <<clock, fallbackRepoUrls, canUseD1, memoryCache, rateLimitUntil,
                 github_cache, lastReturn, started, last429>>

\* the same step, with the history of the rate-limit statuses answered
AggregateSeen(s) ==
  /\ pass[s].pc = "members"
  /\ \E flagged \in Statuses, silent \in Statuses :
       pass' = [pass EXCEPT ![s] =
                  [Aggregated(pass[s], flagged, silent) EXCEPT
                     !.seen = {st \in {flagged, silent} : IsRateLimitStatus(st)}]]
  /\ UNCHANGED beyondLoad
  /\ UNCHANGED <<clock, fallbackRepoUrls, canUseD1, memoryCache, rateLimitUntil,
                 github_cache, lastReturn, started, last429>>

\* l.1175-1192: serve a fresh previous cache when rate limited, else trip the
\* guard if rate limited and store the payload in memory
Finish(s) ==
  LET r   == pass[s]
      q   == r.proc
      nowFinal == clock
      r1  == [r EXCEPT !.nowFinal = nowFinal]
      previous == PreviousCache(r, nowFinal)
  IN
  /\ r.pc = "finish"
  /\ last429' = [last429 EXCEPT ![q] = 429 \in r.seen]
  /\ IF previous.line # 0
       THEN /\ Continue(s, Return(r1, previous.line, previous.payload))
            /\ UNCHANGED <<memoryCache, rateLimitUntil>>
     ELSE /\ rateLimitUntil' = [rateLimitUntil EXCEPT ![q] = Tripped(r, nowFinal)]
          /\ memoryCache' = [memoryCache EXCEPT ![q] = Stored(r)]
          /\ Continue(s, IF canUseD1[q] THEN [r1 EXCEPT !.pc = "persist"]
                         ELSE Return(r1, 1212, payloadOf(r.id)))
  /\ UNCHANGED beyondLoad
  /\ UNCHANGED <<clock, fallbackRepoUrls, canUseD1, github_cache, started>>

\* l.1194-1212: INSERT OR REPLACE of the one row; a failure is logged
Persist(s) ==
  LET r == pass[s]
      q == r.proc
  IN
  /\ r.pc = "persist"
  /\ \E writeFails \in BOOLEAN :
       github_cache' =
         IF writeFails THEN github_cache
         ELSE <<[payload |-> JsonStringify(payloadOf(r.id)),
                 timestamp |-> r.nowFinal,
                 rate_limit_until |->
                   IF rateLimitUntil[q] # 0 THEN rateLimitUntil[q]
                   ELSE r.persistedRateUntil]>>
  /\ Continue(s, Return(r, 1212, payloadOf(r.id)))
  /\ UNCHANGED beyondLoad
  /\ UNCHANGED <<clock, fallbackRepoUrls, canUseD1, memoryCache, rateLimitUntil,
                 started, last429>>

\* ------------------------------------------------- the upstream calls
\* What fetch() resolves to: an HTTP status, and whether the body lists
\* anything (for a commit page: anything and a rel="next" link).  Status 0
\* stands for a fetch that rejects (network error).
Responses ==
  {[status |-> 200, some |-> b] : b \in BOOLEAN}
    \cup {[status |-> st, some |-> FALSE] : st \in {0, 403, 429, 500}}
StatsResponses == Responses \cup {[status |-> 202, some |-> FALSE]}
Ok(resp) == resp.status = 200
Rejected(resp) == resp.status = 0

MemberSites ==
  {"userProfile", "userRepos", "publicMembers", "orgRepos1", "orgRepos2", "repoDetail",
   "topic1", "topic2"}
RepoSites == {"hydrate", "activityLoad", "activityCheck"}

attempts == 3    \* l.84, l.863
sleepMs == 1200  \* l.94
maxPages == 5    \* l.49

\* history: a call was made and answered resp
Called(r, resp) ==
  [r EXCEPT !.calledUpstream = TRUE,
            !.seen = IF IsRateLimitStatus(resp.status) THEN @ \cup {resp.status} ELSE @,
            !.threw = @ \/ Rejected(resp)]

\* "if (res.status === 403 || res.status === 429) rateLimited = true"
Flag(r, resp) == [r EXCEPT !.rateLimited = @ \/ IsRateLimitStatus(resp.status)]

\* the catch block around the statement that threw: log, go on at site next
\* the locals at site next; those no statement from there on reads are dropped
Goto(r, next) ==
  [r EXCEPT !.pc = next, !.n = 0,
            !.hasMembers = @ /\ next \in MemberSites,
            !.haveRepos = @ /\ next \in MemberSites \cup RepoSites]

\* mutant of OnThrow: no catch block, the exception ends the invocation
OnThrowRaise(r, next) == [r EXCEPT !.pc = "raised"]

OnThrow(r, next) == Goto(r, next)

\* l.1164-1173: the payload is assembled; what it holds is not kept here
ToFinish(r) ==
  [r EXCEPT !.pc = "finish", !.n = 0, !.hasMembers = FALSE, !.haveRepos = FALSE,
            !.wiki = FALSE, !.rows = FALSE]

AfterFallback(r) == IF r.hasMembers THEN "topic1" ELSE "hydrate"
AfterOrgRepos(r) == IF Len(fallbackRepoUrls) > 0 THEN "repoDetail" ELSE AfterFallback(r)
AfterHydrate(r) == IF canUseD1[r.proc] THEN "activityLoad" ELSE "activityCheck"
AfterWiki(r) == IF canUseD1[r.proc] THEN "blogsLoad" ELSE "author"

\* l.479-491: GET /orgs/{org}/members
Members(r, resp) ==
  LET c == Called(r, resp) IN
  IF Rejected(resp) THEN OnThrow(c, "publicMembers")
  ELSE IF Ok(resp)
    THEN IF resp.some THEN [Goto(c, "userProfile") EXCEPT !.hasMembers = TRUE]
         ELSE Goto(c, "publicMembers")
  ELSE Goto(Flag(c, resp), "publicMembers")

\* l.499-512: GET /users/{login}; a failure leaves the profile empty
UserProfile(r, resp) ==
  LET c == Called(r, resp) IN
  IF Rejected(resp) THEN OnThrow(c, "userRepos") ELSE Goto(c, "userRepos")

\* l.514-526: GET /users/{login}/repos; a failure leaves starSum 0
UserRepos(r, resp) ==
  LET c == Called(r, resp) IN
  IF Rejected(resp) THEN OnThrow(c, "orgRepos1") ELSE Goto(c, "orgRepos1")

\* l.542-561: GET /orgs/{org}/public_members, when the member list is empty
PublicMembers(r, resp) ==
  LET c == Called(r, resp) IN
  IF Rejected(resp) THEN OnThrow(c, "orgRepos1")
  ELSE IF Ok(resp) THEN [Goto(c, "orgRepos1") EXCEPT !.hasMembers = resp.some]
  ELSE Goto(Flag(c, resp), "orgRepos1")

\* l.563-629: GET /orgs/{org}/repos, then GET /users/{org}/repos
OrgRepos(r, resp) ==
  LET c == Called(r, resp)
      orElse == IF r.pc = "orgRepos1" THEN "orgRepos2" ELSE AfterOrgRepos(r)
  IN
  IF Rejected(resp) THEN OnThrow(c, orElse)
  ELSE IF ~Ok(resp) THEN Goto(Flag(c, resp), orElse)
  ELSE IF ~resp.some THEN Goto(c, orElse)
  ELSE [Goto(c, AfterOrgRepos(r)) EXCEPT !.haveRepos = TRUE]

\* l.631-706: GET /repos/{owner}/{repo} for the fallback list; a placeholder
\* stands in for a repo that could not be loaded
RepoDetail(r, resp) ==
  LET c == [Called(r, resp) EXCEPT !.haveRepos = TRUE] IN
  IF Rejected(resp) THEN OnThrow(c, AfterFallback(r))
  ELSE IF Ok(resp) THEN Goto(c, AfterFallback(r))
  ELSE Goto(Flag(c, resp), AfterFallback(r))

\* l.708-730: GET /search/repositories, once per topic spelling
TopicSearch(r, resp) ==
  LET c == Called(r, resp)
      next == IF r.pc = "topic1" THEN "topic2" ELSE "hydrate"
  IN
  IF Rejected(resp) THEN OnThrow(c, next)
  ELSE IF Ok(resp) /\ resp.some THEN [Goto(c, next) EXCEPT !.haveRepos = TRUE]
  ELSE Goto(c, next)

\* l.269-293, l.789: GET /repos/{owner}/{repo} for a repo without homepage
HydrateHomepages(r, resp, missing) ==
  IF ~(r.haveRepos /\ missing) THEN Goto(r, AfterHydrate(r))
  ELSE LET c == Called(r, resp) IN
       IF Rejected(resp) THEN OnThrow(c, AfterHydrate(r)) ELSE Goto(c, AfterHydrate(r))

\* l.795-822: the table repo_activity_cache is created and read
ActivityLoad(r, fails) ==
  IF fails THEN OnThrow([r EXCEPT !.threw = TRUE], "activityCheck")
  ELSE Goto(r, "activityCheck")

\* l.824-859: is there a repo whose cached activity is stale or missing
ActivityCheck(r, stale) ==
  IF r.haveRepos /\ stale THEN Goto(r, "stats") ELSE Goto(r, "wikiList")

\* l.80-104, l.863-975: GET /repos/{owner}/{repo}/stats/commit_activity, again
\* after a 202; cached tells whether activityCache holds a series for the repo
Stats(r, resp, cached) ==
  LET c == Called(r, resp)
      orElse == IF cached THEN "persistActivity" ELSE "commits"
  IN
  IF Rejected(resp) THEN OnThrow(c, "persistActivity")
  ELSE IF resp.status = 202
    THEN IF r.n < attempts - 1 THEN [c EXCEPT !.n = @ + 1] ELSE Goto(c, orElse)
  ELSE IF ~Ok(resp) THEN Goto(Flag(c, resp), orElse)
  ELSE Goto(c, "persistActivity")

\* l.41-73, l.878-904, l.921-945: GET /repos/{owner}/{repo}/commits, page by page
Commits(r, resp) ==
  LET c == Called(r, resp) IN
  IF Rejected(resp) THEN OnThrow(c, "persistActivity")
  ELSE IF Ok(resp) /\ resp.some /\ r.n < maxPages - 1 THEN [c EXCEPT !.n = @ + 1]
  ELSE Goto(c, "persistActivity")

\* l.321-345: the series is kept; with D1 it is written to repo_activity_cache
PersistActivity(r, fails) ==
  IF canUseD1[r.proc] /\ fails THEN OnThrow([r EXCEPT !.threw = TRUE], "wikiList")
  ELSE Goto(r, "wikiList")

\* l.978-1070: GET /repos/{org}/contrib.club.wiki/contents
WikiList(r, resp) ==
  LET c == Called(r, resp) IN
  IF Rejected(resp) THEN OnThrow(c, AfterWiki(r))
  ELSE IF Ok(resp)
    THEN IF resp.some THEN [Goto(c, "wikiContent") EXCEPT !.wiki = TRUE]
         ELSE Goto(c, AfterWiki(r))
  ELSE Goto(Flag(c, resp), AfterWiki(r))

\* l.1000-1011: GET of the raw file, then l.1013-1031: GET of its last commit
WikiFile(r, resp) ==
  LET c == Called(r, resp)
      next == IF r.pc = "wikiContent" THEN "wikiCommit" ELSE AfterWiki(r)
  IN
  IF Rejected(resp) THEN OnThrow(c, next) ELSE Goto(c, next)

\* l.1078-1104: the table blogs is created and read
BlogsLoad(r, fails, some) ==
  LET next == IF r.wiki THEN "blogSeed" ELSE "author" IN
  IF fails THEN OnThrow([r EXCEPT !.threw = TRUE], next)
  ELSE [Goto(r, next) EXCEPT !.rows = some]

\* l.1106-1139: INSERT OR IGNORE of the wiki entries
BlogSeed(r, fails) ==
  IF fails THEN OnThrow([r EXCEPT !.threw = TRUE], "author") ELSE Goto(r, "author")

\* l.258-267, l.1147-1162: GET /users/{author} when there are posts
FetchAuthorWebsite(r, resp) ==
  IF ~(r.wiki \/ r.rows) THEN ToFinish(r)
  ELSE LET c == Called(r, resp) IN
       IF Rejected(resp) THEN ToFinish(OnThrow(c, "finish")) ELSE ToFinish(c)

WalkSites ==
  {"members", "userProfile", "userRepos", "publicMembers", "orgRepos1", "orgRepos2",
   "repoDetail", "topic1", "topic2", "hydrate", "activityLoad", "activityCheck",
   "stats", "commits", "persistActivity", "wikiList", "wikiContent", "wikiCommit",
   "blogsLoad", "blogSeed", "author"}

\* the sites that are statements on D1, not calls
StoreSites == {"activityLoad", "persistActivity", "blogsLoad", "blogSeed"}
NoResponse == [status |-> 200, some |-> FALSE]

Site(r, resp, opt, fails) ==
  CASE r.pc = "members" -> Members(r, resp)
    [] r.pc = "userProfile" -> UserProfile(r, resp)
    [] r.pc = "userRepos" -> UserRepos(r, resp)
    [] r.pc = "publicMembers" -> PublicMembers(r, resp)
    [] r.pc \in {"orgRepos1", "orgRepos2"} -> OrgRepos(r, resp)
    [] r.pc = "repoDetail" -> RepoDetail(r, resp)
    [] r.pc \in {"topic1", "topic2"} -> TopicSearch(r, resp)
    [] r.pc = "hydrate" -> HydrateHomepages(r, resp, opt)
    [] r.pc = "activityLoad" -> ActivityLoad(r, fails)
    [] r.pc = "activityCheck" -> ActivityCheck(r, opt)
    [] r.pc = "stats" -> Stats(r, resp, opt)
    [] r.pc = "commits" -> Commits(r, resp)
    [] r.pc = "persistActivity" -> PersistActivity(r, fails)
    [] r.pc = "wikiList" -> WikiList(r, resp)
    [] r.pc \in {"wikiContent", "wikiCommit"} -> WikiFile(r, resp)
    [] r.pc = "blogsLoad" -> BlogsLoad(r, fails, opt)
    [] r.pc = "blogSeed" -> BlogSeed(r, fails)
    [] r.pc = "author" -> FetchAuthorWebsite(r, resp)

\* l.478-1173, one statement that awaits at a time
Walk(s) ==
  LET r == pass[s] IN
  /\ r.pc \in WalkSites
  /\ \E resp \in StatsResponses, opt \in BOOLEAN, fails \in BOOLEAN :
       /\ resp.status = 202 => r.pc = "stats"
       /\ r.pc \in StoreSites \cup {"activityCheck"} => resp = NoResponse
       /\ r.pc \notin StoreSites => ~fails
       /\ r.pc \notin {"hydrate", "activityCheck", "stats", "blogsLoad"} => ~opt
       /\ pass' = [pass EXCEPT ![s] = Site(r, resp, opt, fails)]
  /\ UNCHANGED beyondLoad
  /\ UNCHANGED <<clock, fallbackRepoUrls, canUseD1, memoryCache, rateLimitUntil,
                 github_cache, lastReturn, started, last429>>

TickCalls ==
  /\ clock < T0 + MaxWalkTicks * Tick
  /\ clock' = clock + Tick
  /\ UNCHANGED beyondLoad
  /\ UNCHANGED <<fallbackRepoUrls, canUseD1, memoryCache, rateLimitUntil,
                 github_cache, pass, lastReturn, started, last429>>

\* load is entered while no other invocation is in flight
StartAlone(s) ==
  /\ \A s2 \in Slots : pass[s2].pc = "idle"
  /\ started < MaxWalks
  /\ Start(s)

Next ==
  \/ Tick_
  \/ \E s \in Slots : Start(s)
  \/ \E s \in Slots : ReadD1(s)
  \/ \E s \in Slots : GuardStep(s)
  \/ \E s \in Slots : Aggregate(s)
  \/ \E s \in Slots : Finish(s)
  \/ \E s \in Slots : Persist(s)

Spec == Init /\ [][Next]_vars

\* Spec with the history of the statuses answered
NextSeen ==
  \/ Tick_
  \/ \E s \in Slots : Start(s)
  \/ \E s \in Slots : ReadD1(s)
  \/ \E s \in Slots : GuardStep(s)
  \/ \E s \in Slots : AggregateSeen(s)
  \/ \E s \in Slots : Finish(s)
  \/ \E s \in Slots : Persist(s)

SpecSeen == Init /\ [][NextSeen]_vars

\* one invocation at a time, call by call
NextCalls ==
  \/ TickCalls
  \/ \E s \in Slots : StartAlone(s)
  \/ \E s \in Slots : ReadD1(s)
  \/ \E s \in Slots : GuardStep(s)
  \/ \E s \in Slots : Walk(s)
  \/ \E s \in Slots : Finish(s)
  \/ \E s \in Slots : Persist(s)

SpecCalls == InitCalls /\ [][NextCalls]_vars

\* ================================================================ claims
FifteenMinutes == 15 * 60 * 1000

\* a payload is held and is younger than 15 minutes at time t
Young(payload, timestamp, t) == payload # NullPayload /\ t - timestamp < FifteenMinutes

\* The invocations whose cooldown branch (l.442-476) runs in the step, with
\* their locals on entering it: after the D1 read, or in the step that starts
\* an invocation of a worker without D1.
Entering ==
  {pass[s] : s \in {t \in Slots : pass[t].pc = "guard" /\ pass'[t].pc # "guard"}}
    \cup {[IdlePass EXCEPT !.proc = q, !.id = started + 1, !.now = clock] :
            q \in {p \in Procs :
                     /\ started' = started + 1
                     /\ ~canUseD1[p]
                     /\ \/ lastReturn'.id = started + 1 /\ lastReturn'.proc = p
                        \/ \E t \in Slots : pass'[t].id = started + 1 /\ pass'[t].proc = p}}

\* the guard is cooling down for the invocation with locals r
CoolingFor(r) == r.now < rateLimitUntil[r.proc] \/ r.now < r.persistedRateUntil

\* the step returns value from the invocation with locals r
Returns(r, value) == lastReturn'.id = r.id /\ lastReturn'.result = value

\* C1: a pass that starts in a worker whose previous pass was answered a 429,
\* before that worker's cooldown timestamp has elapsed, makes no upstream call.
C1_NoCallsAfter429 ==
  \A s \in Slots : pass[s].after429 => ~pass[s].calledUpstream

\* C2: a pass for which the guard is cooling down (its start time is earlier
\* than the in-process cooldown timestamp or the persisted rate_limit_until)
\* makes no upstream call, whatever the caches and the fallback list hold.
C2_NoCallsWhileCooling ==
  \A s \in Slots : pass[s].cooling => ~pass[s].calledUpstream

\* C3: a pass that returns from the cooldown branch returns the memory cache
\* if that is younger than 15 minutes, otherwise the persisted cache if that is
\* younger than 15 minutes, otherwise the fallback-list payload: one tier's
\* data as it is, and never a cached payload aged 15 minutes or more.
C3_OneTierInOrder ==
  [][\A r \in Entering :
       lastReturn'.id = r.id =>
         LET mem == memoryCache[r.proc] IN
         lastReturn'.result =
           IF Young(mem.payload, mem.timestamp, r.now) THEN mem.payload
           ELSE IF Young(r.persistedPayload, r.persistedTimestamp, r.now)
             THEN r.persistedPayload
           ELSE fallbackPayload(fallbackRepoUrls)]_vars

\* C3 witness: the cooldown branch has served the persisted cache of another
\* worker's pass, the memory cache of the serving worker being empty
C3_Witness ==
  /\ lastReturn.ret = 450
  /\ lastReturn.result.kind = "live"
  /\ memoryCache[lastReturn.proc].payload = NullPayload
  /\ ~lastReturn.calledUpstream

\* rate_limit_until of the persisted row, 0 while there is none
PersistedRateUntil == IF Len(github_cache) > 0 THEN github_cache[1].rate_limit_until ELSE 0

\* the payload of the persisted row, NullPayload while there is none that parses
PersistedBlob ==
  IF Len(github_cache) > 0 /\ JsonParses(github_cache[1].payload)
    THEN JsonParse(github_cache[1].payload) ELSE NullPayload

\* the invocation in slot s ends its pass in the step (l.1175-1192)
Ends(s) == pass[s].pc = "finish" /\ pass'[s].pc # "finish"

\* the invocation in slot s writes the persisted row in the step, or fails to
\* (l.1194-1210)
Writes(s) == pass[s].pc = "persist" /\ pass'[s].pc # "persist"

\* C4: neither the in-process cooldown timestamp of a worker nor the persisted
\* rate_limit_until ever decreases, whatever the interleaving of the passes of
\* the workers that share the store.
C4_CooldownNeverDecreases ==
  [][/\ \A q \in Procs : rateLimitUntil'[q] >= rateLimitUntil[q]
     /\ PersistedRateUntil' >= PersistedRateUntil]_vars

C6_RateLimitStatusSetsFlag ==
  \A s \in Slots : pass[s].seen # {} => pass[s].rateLimited

\* C7: a pass that ends with its rate-limited flag set returns the memory
\* cache if that is younger than 15 minutes, otherwise the persisted cache if
\* that is younger than 15 minutes, and then leaves the memory cache and the
\* persisted blob as they are; when neither is fresh it commits the payload it
\* has assembled to the memory cache, and returns that payload.
C7_FreshPreviousCachePreferred ==
  [][\A s \in Slots :
       LET r   == pass[s]
           mem == memoryCache[r.proc]
       IN  /\ Ends(s) /\ r.rateLimited =>
                IF Young(mem.payload, mem.timestamp, clock)
                  THEN Returns(r, mem.payload) /\ UNCHANGED <<memoryCache, github_cache>>
                ELSE IF Young(r.persistedPayload, r.persistedTimestamp, clock)
                  THEN /\ Returns(r, r.persistedPayload)
                       /\ UNCHANGED <<memoryCache, github_cache>>
                ELSE /\ memoryCache'[r.proc].payload = payloadOf(r.id)
                     /\ \/ Returns(r, payloadOf(r.id))
                        \/ pass'[s] = [r EXCEPT !.pc = "persist", !.nowFinal = clock]
           /\ Writes(s) => Returns(r, payloadOf(r.id))]_vars

\* C7 witness: a rate-limited pass has returned the memory cache, the payload
\* of an earlier pass, which the memory cache still holds
C7_Witness ==
  /\ lastReturn.ret = 1179
  /\ lastReturn.calledUpstream
  /\ lastReturn.result # payloadOf(lastReturn.id)
  /\ memoryCache[lastReturn.proc].payload = lastReturn.result

\* C8: after the write to the persisted store has been attempted, the memory
\* cache and the persisted row both hold the payload of the pass, or neither.
C8_CommitIsAtomic ==
  [][\A s \in Slots :
       Writes(s) =>
         (memoryCache'[pass[s].proc].payload = payloadOf(pass[s].id)
            <=> PersistedBlob' = payloadOf(pass[s].id))]_vars

\* C9 as stated: a pass that finds a payload younger than 15 minutes in the
\* memory cache returns it without making an upstream call.
C9_FreshMemoryAlwaysServed ==
  [][\A r \in Entering :
       LET mem == memoryCache[r.proc] IN
       Young(mem.payload, mem.timestamp, r.now) =>
         Returns(r, mem.payload) /\ ~lastReturn'.calledUpstream]_vars

\* C9 amended: a pass for which the guard is cooling down and that finds a
\* payload younger than 15 minutes in the memory cache returns that payload
\* without making an upstream call.
C9_FreshMemoryServedWhileCooling ==
  [][\A r \in Entering :
       LET mem == memoryCache[r.proc] IN
       CoolingFor(r) /\ Young(mem.payload, mem.timestamp, r.now) =>
         Returns(r, mem.payload) /\ ~lastReturn'.calledUpstream]_vars

\* C9 witness: the cooldown branch has returned the memory cache
C9_Witness ==
  /\ lastReturn.ret = 446
  /\ ~lastReturn.calledUpstream
  /\ lastReturn.result.kind = "live"
  /\ lastReturn.result = memoryCache[lastReturn.proc].payload

\* C10: whatever the upstream calls answer and whichever statements on the
\* persisted store fail, no invocation of load ends by raising, and the
\* invocation that returns returns a payload.
C10_NothingFatal ==
  /\ \A s \in Slots : pass[s].pc # "raised"
  /\ lastReturn.id > 0 => lastReturn.result # NullPayload

\* C10 witness: a pass in which an exception was thrown has returned its
\* payload, the persisted row being unparseable before and after it
C10_Witness ==
  /\ lastReturn.ret = 1212
  /\ lastReturn.threw
  /\ lastReturn.result = payloadOf(lastReturn.id)
  /\ Len(github_cache) > 0
  /\ ~JsonParses(github_cache[1].payload)

\* ===================================================== commit activity
\* l.791-975 for one repo URL of combinedRepos, over successive invocations
\* of load.  activityFetchTime (l.826) is the only reading of the clock in
\* these lines, so the clock moves between invocations, once.
MaxActivityPasses == 2    \* invocations of load

ACTIVITY_TTL == 1000 * 60 * 60 * 24
ACTIVITY_RETRY_TTL == 1000 * 60 * 15
activityMaxAge == 1000 * 60 * 60 * 24 * 2
days == 60                \* l.44, l.879, l.922
window == 364             \* l.952: slice(-364)

\* by how much the clock moves: to either side of each age l.833-844 test
Jumps ==
  {ACTIVITY_RETRY_TTL - 1, ACTIVITY_RETRY_TTL, ACTIVITY_TTL - 1, ACTIVITY_TTL,
   activityMaxAge + 1}

\* ---- the stats endpoint: weeks of days (RepoActivity[])
Week(w, len) == [hasDays |-> TRUE, days |-> [d \in 1..len |-> 7 * (w - 1) + d]]
WeekWithoutDays == [hasDays |-> FALSE, days |-> <<>>]
Weeks(k) == [w \in 1..k |-> Week(w, 7)]

\* what the endpoint can deliver: no week, one, 52, 53, 71 and three days
\* (500 days), and a week without days
WeeksDelivered ==
  {Weeks(k) : k \in {0, 1, 52, 53}}
    \cup {Append(Weeks(71), Week(72, 3)), <<WeekWithoutDays>>}

\* weeks.flatMap((week) => week.days ?? [])
RECURSIVE flatMap(_)
flatMap(weeks) ==
  IF weeks = <<>> THEN <<>>
  ELSE LET week == weeks[Len(weeks)] IN
       flatMap(SubSeq(weeks, 1, Len(weeks) - 1))
         \o (IF week.hasDays THEN week.days ELSE <<>>)

\* mutant of slice: array.slice(0, k), the head and not the tail
sliceHead(array, k) ==
  [i \in 1..(IF Len(array) < k THEN Len(array) ELSE k) |-> array[i]]

\* array.slice(-k): from index max(length - k, 0) to the end
slice(array, k) ==
  LET from == IF Len(array) - k > 0 THEN Len(array) - k ELSE 0
  IN  [i \in 1..(Len(array) - from) |-> array[from + i]]

\* l.952: the series stored for the weeks delivered
Windowed(weeks) == slice(flatMap(weeks), window)

\* a response of GET .../stats/commit_activity: status 0 is a fetch that
\* rejects; a 200 carries an array of weeks, or something else
StatsAnswers ==
  {[status |-> st, isArray |-> FALSE, weeks |-> <<>>] : st \in {0, 200, 202, 403, 500}}
    \cup {[status |-> 200, isArray |-> TRUE, weeks |-> w] : w \in WeeksDelivered}

\* ---- the commits endpoint: items with the age in days of their commit date
\* age is now - ts of l.63-64 in whole seconds, floor((now - ts) / 1000):
\* floor(floor(x / 1000) / (60 * 60 * 24)) is floor(x / (1000 * 60 * 60 * 24))
Commit(age) == [dated |-> TRUE, age |-> age]
Undated == [dated |-> FALSE, age |-> 0]
DaySeconds == 60 * 60 * 24

\* mutant of diffDays: Math.round
roundDays(item) == (item.age + DaySeconds \div 2) \div DaySeconds

\* l.64: Math.floor((now - ts) / (1000 * 60 * 60 * 24))
diffDays(item) == item.age \div DaySeconds

CommitPages ==
  {[status |-> 200, items |-> it, next |-> nx] :
     it \in {<<>>, <<Commit(0), Commit(DaySeconds - 1), Commit(days * DaySeconds - 1),
                     Commit(days * DaySeconds), Undated, Commit(-1)>>},
     nx \in BOOLEAN}
    \cup {[status |-> st, items |-> <<>>, next |-> FALSE] : st \in {0, 403, 500}}

\* l.48: Array.from({ length: days }, () => 0)
ZeroBuckets == [i \in 1..days |-> 0]

\* l.60-68: the items of one page are counted in their buckets
RECURSIVE Bucketed(_, _)
Bucketed(buckets, items) ==
  IF items = <<>> THEN buckets
  ELSE LET item == Head(items)
           skip == ~item.dated \/ diffDays(item) < 0 \/ diffDays(item) >= days
           bucketIndex == days - 1 - diffDays(item)
       IN  Bucketed(IF skip THEN buckets
                    ELSE [buckets EXCEPT ![bucketIndex + 1] = @ + 1],
                    Tail(items))

\* ---- the activity cache
\* mutant of IsActivityFresh: the long TTL whatever the entry holds
IsActivityFreshLongTtl(cached, activityFetchTime) ==
  LET tooOld == cached.has /\ activityFetchTime - cached.timestamp > activityMaxAge
  IN  cached.has /\ activityFetchTime - cached.timestamp < ACTIVITY_TTL /\ ~tooOld

\* l.831-844: the cached entry is served ("Activity cache hit")
IsActivityFresh(cached, activityFetchTime) ==
  LET hasData == cached.has /\ Len(cached.activity) > 0
      ttl     == IF hasData THEN ACTIVITY_TTL ELSE ACTIVITY_RETRY_TTL
      tooOld  == cached.has /\ activityFetchTime - cached.timestamp > activityMaxAge
  IN  cached.has /\ activityFetchTime - cached.timestamp < ttl /\ ~tooOld

\* l.329: activityCache.set(repoUrl, { activity, timestamp })
Cache(a, activity) == [a EXCEPT !.cached = Entry(activity, a.activityFetchTime)]

\* l.330-344: the table after persistActivity; nothing is written for an empty
\* series or without a table, a failed write is logged
Table(a, activity, fails) ==
  IF Len(activity) = 0 \/ ~canUseD1[a.proc] \/ ~a.activityTableReady \/ fails
    THEN repo_activity_cache
    ELSE <<[activity |-> JsonStringify(activity), timestamp |-> a.activityFetchTime]>>

\* the invocation is through with the repo
Done(a) ==
  [a EXCEPT !.pc = "idle", !.n = 0, !.buckets = <<>>, !.requests = <<>>,
            !.emptyAt = IF a.activity.present /\ a.activity.series = <<>>
                          THEN a.activityFetchTime ELSE -1]

\* "repoStats[repoUrl] = { ...repoStats[repoUrl], activity }" and
\* "await persistActivity(...)": what the step leaves, and what is to persist
Attach(a, activity) ==
  [act |-> Done([a EXCEPT !.activity = Attached(activity)]),
   persist |-> TRUE, series |-> activity]
Leave(a) == [act |-> a, persist |-> FALSE, series |-> <<>>]

\* l.867-877, l.910-920: the cached series if it is not empty, else the
\* commits of the last days
AfterPrimaryFailed(a) ==
  LET fallbackActivity == IF a.cached.has THEN a.cached.activity ELSE <<>>
  IN  IF Len(fallbackActivity) > 0 THEN Attach(a, fallbackActivity)
      ELSE Leave([a EXCEPT !.pc = "commits", !.n = 0, !.buckets = ZeroBuckets,
                           !.requests = <<>>])

\* mutant of Slept: a sleep after every 202
SleptAlways(c) == sleepMs

\* l.94: if (i < attempts - 1) await sleep(1200)
Slept(c) == IF c.n < attempts - 1 THEN sleepMs ELSE 0

\* l.80-104, l.863-975: one GET .../stats/commit_activity and what follows it
fetchCommitActivityWithRetry(a, res) ==
  LET c == [a EXCEPT !.calledStats = TRUE, !.lastStatus = res.status, !.slept = 0] IN
  IF Rejected(res)
    THEN \* l.966-975
         Attach([c EXCEPT !.primary = "rejected"],
                IF c.cached.has THEN c.cached.activity ELSE <<>>)
  ELSE IF res.status = 202
    THEN IF c.n < attempts - 1
           THEN Leave([c EXCEPT !.n = @ + 1, !.requests = Append(@, res.status),
                                !.slept = Slept(c)])
         ELSE AfterPrimaryFailed([c EXCEPT !.primary = "generating", !.slept = Slept(c),
                                           !.result = Result(FALSE, res.status)])
  ELSE IF ~Ok(res) THEN AfterPrimaryFailed([c EXCEPT !.primary = "failed",
                                                     !.result = Result(FALSE, res.status)])
  ELSE IF ~res.isArray THEN Leave(Done([c EXCEPT !.primary = "delivered",
                                                 !.result = Result(TRUE, res.status)]))
  ELSE Attach([c EXCEPT !.primary = "delivered", !.weeks = res.weeks,
                        !.result = Result(TRUE, res.status)],
              Windowed(res.weeks))

\* what the loop of l.50-71 reads of a response: res.ok, whether items has
\* entries (l.59), whether the link header has rel="next" (l.69-70); nothing
\* of a fetch that rejected
Page(res) ==
  [rejected |-> Rejected(res),
   ok |-> Ok(res),
   empty |-> ~Ok(res) \/ res.items = <<>>,
   next |-> Ok(res) /\ res.items # <<>> /\ res.next]

\* l.41-73, l.878-904, l.921-945: one GET .../commits and what follows it
fetchDailyCommitsForWindow(a, res) ==
  LET c == [a EXCEPT !.calledCommits = TRUE, !.lastStatus = 0, !.result = NoResult,
                     !.pages = Append(@, Page(res)),
                     !.counted = IF Ok(res) THEN @ \o res.items ELSE @] IN
  IF Rejected(res) THEN Attach([c EXCEPT !.listingFailed = TRUE], <<>>)
  ELSE IF ~Ok(res) THEN Attach([c EXCEPT !.listingFailed = TRUE], c.buckets)
  ELSE IF res.items = <<>> THEN Attach(c, c.buckets)
  ELSE LET buckets == Bucketed(c.buckets, res.items) IN
       IF res.next /\ c.n < maxPages - 1
         THEN Leave([c EXCEPT !.n = @ + 1, !.buckets = buckets])
         ELSE Attach(c, buckets)

\* the series that is attached is the one that was cached: no answer of
\* this invocation is in it
Reused(a) == a.primary \in {"generating", "failed", "rejected"} /\ ~a.calledCommits

\* the row that persistActivity writes holds a series that this invocation
\* got from upstream, or the series the row held
Dated(o, fails) ==
  IF o.persist /\ Table(o.act, o.series, fails) # repo_activity_cache /\ ~Reused(o.act)
    THEN o.act.activityFetchTime ELSE o.act.obtainedAt

\* the step has left o
Left(o, fails) ==
  /\ act' = [(IF o.persist THEN Cache(o.act, o.series) ELSE o.act)
               EXCEPT !.obtainedAt = Dated(o, fails)]
  /\ repo_activity_cache' =
       IF o.persist THEN Table(o.act, o.series, fails) ELSE repo_activity_cache

\* ---- actions
Jump ==
  /\ act.pc = "idle"
  /\ ~act.jumped
  /\ act.passes < MaxActivityPasses
  /\ \E d \in Jumps : clock' = clock + d
  /\ act' = [act EXCEPT !.jumped = TRUE]
  /\ UNCHANGED beyondMerge
  /\ UNCHANGED <<fallbackRepoUrls, canUseD1, memoryCache, rateLimitUntil,
                 github_cache, pass, lastReturn, started, last429, merge,
                 repo_activity_cache>>

\* l.791-855: the table is read (a failure is logged), then the entry of the
\* repo is served or the repo is set down for fetching
ActivityBegin ==
  /\ act.pc = "idle"
  /\ act.passes < MaxActivityPasses
  /\ \E q \in Procs, readFails \in BOOLEAN :
       LET ready  == canUseD1[q] /\ ~readFails
           cached == IF ready /\ Len(repo_activity_cache) > 0
                        /\ JsonParses(repo_activity_cache[1].activity)
                       THEN Entry(JsonParse(repo_activity_cache[1].activity),
                                  repo_activity_cache[1].timestamp)
                       ELSE NoEntry
           a == [IdleActivity EXCEPT !.proc = q, !.activityTableReady = ready,
                                     !.activityFetchTime = clock, !.cached = cached,
                                     !.passes = act.passes + 1,
                                     !.emptyAt = act.emptyAt,
                                     !.obtainedAt = act.obtainedAt]
       IN  /\ readFails => canUseD1[q]
           /\ act' = IF IsActivityFresh(cached, clock)
                       THEN [a EXCEPT !.activity = Attached(cached.activity),
                                      !.emptyAt = -1]
                       ELSE [a EXCEPT !.pc = "stats", !.entered = TRUE]
  /\ UNCHANGED beyondMerge
  /\ UNCHANGED <<clock, fallbackRepoUrls, canUseD1, memoryCache, rateLimitUntil,
                 github_cache, pass, lastReturn, started, last429, merge,
                 repo_activity_cache>>

ActivityStats ==
  /\ act.pc = "stats"
  /\ \E res \in StatsAnswers, fails \in BOOLEAN :
       Left(fetchCommitActivityWithRetry(act, res), fails)
  /\ UNCHANGED beyondMerge
  /\ UNCHANGED <<clock, fallbackRepoUrls, canUseD1, memoryCache, rateLimitUntil,
                 github_cache, pass, lastReturn, started, last429, merge>>

ActivityCommits ==
  /\ act.pc = "commits"
  /\ \E res \in CommitPages, fails \in BOOLEAN :
       Left(fetchDailyCommitsForWindow(act, res), fails)
  /\ UNCHANGED beyondMerge
  /\ UNCHANGED <<clock, fallbackRepoUrls, canUseD1, memoryCache, rateLimitUntil,
                 github_cache, pass, lastReturn, started, last429, merge>>

\* text of the column activity that JSON.parse rejects (l.810-814)
GarbageActivity == [parses |-> FALSE, value |-> <<>>]

\* the table as it may be found: no row, a row whose text does not parse, a
\* row with an empty series, a row with a series
InitActivity ==
  /\ InitBase
  /\ fallbackRepoUrls = <<>>
  /\ canUseD1 = [q \in Procs |-> q = "w1"]
  /\ github_cache = <<>>
  /\ repo_activity_cache \in
       {<<>>} \cup {<<[activity |-> text, timestamp |-> T0]>> :
                      text \in {GarbageActivity, JsonStringify(<<>>),
                                JsonStringify(<<0, 2, 1>>)}}
  /\ act = IdleActivity
  /\ InitNoMerge
  /\ InitNoBlogs

NextActivity ==
  \/ Jump
  \/ ActivityBegin
  \/ ActivityStats
  \/ ActivityCommits

SpecActivity == InitActivity /\ [][NextActivity]_vars

\* ------------------------------------------------------ claims C11 to C15
\* C11: in an invocation of load that starts less than 15 minutes after one
\* in which the activity fetch of the repo produced an empty series, no
\* commit-activity call is made for the repo.
C11_EmptySeriesBacksOff ==
  (/\ act.pc # "idle"
   /\ act.emptyAt >= 0
   /\ act.activityFetchTime - act.emptyAt < FifteenMinutes)
    => ~act.calledStats

TwentyFourHours == 24 * 60 * 60 * 1000
TwoDays == 2 * TwentyFourHours

\* the step is the activity cache check of an invocation of load
ChecksActivity == act'.passes = act.passes + 1

\* C12: the fetcher is entered for the repo if and only if the repo has no
\* cache entry, or its entry is non-empty and at least 24 hours old, or empty
\* and at least 15 minutes old, or more than 2 days old; otherwise the cached
\* series is attached to repoStats and no activity call is made.
C12_FetcherEnteredIffStale ==
  [][ChecksActivity =>
       LET cached == act'.cached
           age    == act'.activityFetchTime - cached.timestamp
           stale  == \/ ~cached.has
                     \/ Len(cached.activity) > 0 /\ age >= TwentyFourHours
                     \/ Len(cached.activity) = 0 /\ age >= FifteenMinutes
                     \/ age > TwoDays
       IN  IF stale
             THEN act'.entered /\ act'.pc = "stats" /\ ~act'.activity.present
             ELSE /\ ~act'.entered /\ act'.pc = "idle"
                  /\ act'.activity = Attached(cached.activity)
                  /\ ~act'.calledStats /\ ~act'.calledCommits]_vars

\* C12 witness: the fetcher has been entered for an entry that is empty and
\* exactly 15 minutes old
C12_Witness ==
  /\ act.pc = "stats" /\ act.entered /\ ~act.calledStats
  /\ act.cached.has /\ act.cached.activity = <<>>
  /\ act.activityFetchTime - act.cached.timestamp = FifteenMinutes

\* C13: when the primary attempt ends still generating after all attempts, or
\* fails outright (non-2xx response, or a request that rejects), the cached
\* series of the repo is used if there is a non-empty one, and no commit
\* listing is requested; if there is none the commit listing is fetched.
C13_CachedElseCommitListing ==
  [][(act.primary = "none" /\ act'.primary \in {"generating", "failed", "rejected"}) =>
       IF act.cached.has /\ Len(act.cached.activity) > 0
         THEN /\ act'.pc = "idle"
              /\ act'.activity = Attached(act.cached.activity)
              /\ ~act'.calledCommits
         ELSE act'.pc = "commits"]_vars

\* an array of zeros
IsZeroFilled(series) == Len(series) > 0 /\ \A i \in 1..Len(series) : series[i] = 0

\* C14: when the primary attempt delivered nothing, there is no cached series
\* and the first commit-listing request fails, repoStats[url].activity is
\* absent or an empty series, never an array of zeros.
C14_NoZeroFilling ==
  [][(act.pc = "commits" /\ act.n = 0 /\ act'.listingFailed) =>
       ~IsZeroFilled(act'.activity.series)]_vars

\* C15: when the primary attempt delivers weeks whose days, flattened, are n
\* elements, the series stored is the last min(n, 364) of them, in their order.
C15_TailOfAtMost364 ==
  (act.primary = "delivered" /\ act.activity.present) =>
    LET flat   == flatMap(act.weeks)
        n      == Len(flat)
        m      == IF n < 364 THEN n ELSE 364
        stored == act.activity.series
    IN  /\ Len(stored) = m
        /\ \A i \in 1..m : stored[i] = flat[n - m + i]

\* C15 witness: 500 days were delivered, the 364 stored are days 137 to 500
C15_Witness ==
  /\ act.primary = "delivered"
  /\ Len(flatMap(act.weeks)) = 500
  /\ act.activity.present
  /\ Len(act.activity.series) = 364
  /\ act.activity.series[1] = 137
  /\ act.activity.series[364] = 500

\* ================================================= repositories and totals
\* One invocation of load from the members request (l.479) to the assembled
\* payload (l.1164): the listings, the curated fallbacks, the topic searches
\* and the totals.  Enrichment, homepages, commit activity and blogs lie
\* between l.786 and l.1164 and change no URL, star or fork count.

\* html_url of a repository that carries none
NoUrl == ""
HasUrl(repo) == repo.html_url # NoUrl

\* a repository as an upstream answer delivers it; origin is a history field
Repo(url, stars, forks, origin) ==
  [html_url |-> url, stargazers_count |-> stars, forks_count |-> forks,
   topics |-> <<>>, origin |-> origin]

\* the entry made up for a fallback URL (l.614-625, l.674-685)
Placeholder(repoUrl) ==
  [html_url |-> repoUrl, stargazers_count |-> 0, forks_count |-> 0,
   topics |-> <<"fallback">>, origin |-> "placeholder"]

\* the bundled list, normalized (l.407-413)
MergeFallbackLists == {<<>>, <<"club">>, <<"club", "lib">>, <<"app">>}

\* GET /orgs/{org}/members and /orgs/{org}/public_members
MemberLists == {<<>>, <<"m1">>, <<"m1", "m2">>}
\* the answers to the two requests about one member (l.500, l.516)
Answered2xx == [user |-> TRUE, repos |-> TRUE, stars |-> 2]
EnrichAnswers == {[user |-> FALSE, repos |-> FALSE, stars |-> 0], Answered2xx}
\* the answers about n members: those about the first member vary
EnrichAnswerLists(n) ==
  {[i \in 1..n |-> IF i = 1 THEN first ELSE Answered2xx] : first \in EnrichAnswers}
MemberAnswers ==
  {[ok |-> FALSE, members |-> <<>>]} \cup {[ok |-> TRUE, members |-> l] : l \in MemberLists}

\* GET /orgs/{org}/repos and /users/{org}/repos
Listings ==
  {<<>>,
   <<Repo("club", 3, 1, "listing")>>,
   <<Repo("club", 3, 1, "listing"), Repo("site", 2, 0, "listing")>>,
   <<Repo("club", 3, 1, "listing"), Repo("club", 5, 2, "listing")>>,
   <<Repo(NoUrl, 1, 1, "listing"), Repo("club", 3, 1, "listing")>>}
ListingAnswers ==
  {[ok |-> FALSE, data |-> <<>>]} \cup {[ok |-> TRUE, data |-> d] : d \in Listings}

\* GET /repos/{owner}/{repo} for a fallback URL: not answered 2xx, answered
\* with the same html_url, answered with the html_url of a renamed repository
DetailKinds == {"failed", "same", "renamed"}
Renamed(repoUrl) == IF repoUrl = "club" THEN "site" ELSE "moved"
Detail(repoUrl, kind) ==
  IF kind = "same" THEN Repo(repoUrl, 8, 2, "detail")
  ELSE IF kind = "renamed" THEN Repo(Renamed(repoUrl), 6, 1, "detail")
  ELSE Placeholder(repoUrl)

\* GET /search/repositories?q=user:{login}+topic:{topic}
SearchItems ==
  {<<>>,
   <<Repo("club", 9, 4, "search")>>,
   <<Repo("app", 4, 1, "search")>>,
   <<Repo("app", 7, 1, "search")>>,
   <<Repo("kit", 2, 2, "search")>>,
   <<Repo("app", 4, 1, "search"), Repo(NoUrl, 1, 0, "search")>>}
SearchAnswers ==
  {[ok |-> FALSE, items |-> <<>>]} \cup {[ok |-> TRUE, items |-> it] : it \in SearchItems}
topics == <<"contrib-club", "contrib.club">>

\* ---- arrays and maps
\* array.filter((repo) => repo.html_url)
Filtered(repos) == SelectSeq(repos, HasUrl)

\* the URLs of an array, as a set
UrlsOf(repos) == {repos[i].html_url : i \in 1..Len(repos)}

\* the keys of new Map(repos.map((repo) => [repo.html_url, repo])), in
\* insertion order
RECURSIVE Keys(_)
Keys(repos) ==
  IF repos = <<>> THEN <<>>
  ELSE LET front == Keys(SubSeq(repos, 1, Len(repos) - 1))
           url == repos[Len(repos)].html_url
       IN IF \E i \in 1..Len(front) : front[i] = url THEN front ELSE Append(front, url)

\* the entry a Map keeps under a key: the one set last
Last(repos, url) ==
  repos[CHOOSE i \in 1..Len(repos) :
          repos[i].html_url = url /\ \A j \in (i + 1)..Len(repos) : repos[j].html_url # url]

\* the array as it is, no Map in between
ArrayValues(repos) == repos

\* Array.from(new Map(repos.map((repo) => [repo.html_url, repo])).values())
MapValues(repos) == [i \in 1..Len(Keys(repos)) |-> Last(repos, Keys(repos)[i])]

\* the property name an html_url makes
Key(url) == IF url = NoUrl THEN "undefined" ELSE url

\* repoStats[url] = entry
Put(stats, url, entry) ==
  [u \in DOMAIN stats \cup {Key(url)} |-> IF u = Key(url) THEN entry ELSE stats[u]]

\* the loops of l.595-604, l.748-757 and l.775-786: an entry per repository,
\* its stars and forks added to the totals
RECURSIVE Tally(_, _)
Tally(m, repos) ==
  IF repos = <<>> THEN m
  ELSE LET repo == Head(repos)
           repoStars == repo.stargazers_count
           repoForks == repo.forks_count
       IN Tally([m EXCEPT !.repoStats = Put(@, repo.html_url,
                                           [stars |-> repoStars, forks |-> repoForks]),
                          !.stars = @ + repoStars,
                          !.forks = @ + repoForks],
                Tail(repos))

\* l.771-773 left out: the totals and entries of the earlier steps stay
KeepTotals(m) == m

\* l.771-773: every key of repoStats deleted, stars and forks set to 0
ResetTotals(m) == [m EXCEPT !.repoStats = NoStats, !.stars = 0, !.forks = 0]

\* the org repositories alone, by URL
orgReposByUrl(m) == MapValues(Filtered(m.orgRepos))

\* l.764-786: the union of both lists by URL, the totals rebuilt from it
combinedRepos(m) == MapValues(Filtered(m.orgRepos \o m.memberRepos))
Recomputed(m) == Tally(ResetTotals(m), combinedRepos(m))

\* l.691-696: a fallback repository is pushed unless its URL is listed
RECURSIVE PushNew(_, _)
PushNew(orgRepos, fallbackRepos) ==
  IF fallbackRepos = <<>> THEN orgRepos
  ELSE LET repo == Head(fallbackRepos)
           url == repo.html_url
       IN IF url = NoUrl \/ url \in UrlsOf(Filtered(orgRepos))
            THEN PushNew(orgRepos, Tail(fallbackRepos))
            ELSE PushNew(Append(orgRepos, repo), Tail(fallbackRepos))

\* l.711-729: the searches of one member, both topics, deduplicated
MemberResults(answers) ==
  LET results == (IF answers[1].ok THEN answers[1].items ELSE <<>>)
                 \o (IF answers[2].ok THEN answers[2].items ELSE <<>>)
  IN MapValues(results)

\* memberRepoResults.flat()
RECURSIVE flat(_)
flat(arrays) == IF arrays = <<>> THEN <<>> ELSE Head(arrays) \o flat(Tail(arrays))

\* l.740 without the test against orgRepoUrls
WithUrl(results, orgRepos) == SelectSeq(results, HasUrl)

\* l.732-746: member repositories whose URL no org repository has, by URL
NotOfOrg(results, orgRepos) ==
  SelectSeq(results, LAMBDA repo : HasUrl(repo) /\ repo.html_url \notin UrlsOf(Filtered(orgRepos)))

\* ---- steps of one invocation
AfterMembers(m) == IF Len(m.orgMembersList) = 0 THEN "publicMembers" ELSE "orgRepos"

\* l.497-535: the detail of one member, from the answers to the request for
\* the profile and to the request for the repositories
MemberDetail(member, answer) ==
  [login |-> member,
   star_count |-> IF answer.repos THEN answer.stars ELSE 0,
   profiled |-> answer.user]

\* l.494-540
Enriched(m, answers) ==
  IF Len(m.orgMembersList) > 0
    THEN [m EXCEPT !.memberDetails =
            [i \in 1..Len(m.orgMembersList) |-> MemberDetail(m.orgMembersList[i], answers[i])]]
    ELSE m

\* l.479-540: the members are listed, and the listed members are enriched
ListMembers ==
  /\ merge.pc = "idle"
  /\ \E res \in MemberAnswers :
       LET m == IF res.ok
                  THEN [merge EXCEPT !.orgMembers = Len(res.members),
                                     !.orgMembersList = res.members]
                  ELSE merge
       IN \E answers \in EnrichAnswerLists(Len(m.orgMembersList)) :
            merge' = [Enriched(m, answers) EXCEPT !.pc = AfterMembers(m)]
  /\ UNCHANGED beyondMerge
  /\ UNCHANGED <<clock, fallbackRepoUrls, canUseD1, memoryCache, rateLimitUntil,
                 github_cache, pass, lastReturn, started, last429,
                 repo_activity_cache, act>>

\* l.541-560
ListPublicMembers ==
  /\ merge.pc = "publicMembers"
  /\ \E res \in MemberAnswers :
       LET m == IF res.ok
                  THEN [merge EXCEPT !.orgMembers = Len(res.members),
                                     !.orgMembersList = res.members]
                  ELSE merge
       IN merge' = [m EXCEPT !.pc = "orgRepos"]
  /\ UNCHANGED beyondMerge
  /\ UNCHANGED <<clock, fallbackRepoUrls, canUseD1, memoryCache, rateLimitUntil,
                 github_cache, pass, lastReturn, started, last429,
                 repo_activity_cache, act>>

\* l.563-629: the first listing that is answered 2xx with repositories is
\* taken; with none, the fallback URLs stand in as placeholders
ListOrgRepos ==
  /\ merge.pc = "orgRepos"
  /\ \E first \in ListingAnswers, second \in ListingAnswers :
       LET tried == <<first, second>>
           hits == {i \in 1..2 : tried[i].ok /\ Len(tried[i].data) > 0}
           loaded == hits # {}
           reposData == tried[CHOOSE i \in hits : \A j \in hits : i <= j].data
           m == IF loaded
                  THEN Tally([merge EXCEPT !.orgRepos = reposData, !.loaded = TRUE,
                                           !.listed = reposData],
                             reposData)
                ELSE IF Len(fallbackRepoUrls) > 0
                  THEN [merge EXCEPT !.orgRepos =
                          [i \in 1..Len(fallbackRepoUrls) |-> Placeholder(fallbackRepoUrls[i])]]
                ELSE merge
       IN merge' = [m EXCEPT !.pc = "repoDetail"]
  /\ UNCHANGED beyondMerge
  /\ UNCHANGED <<clock, fallbackRepoUrls, canUseD1, memoryCache, rateLimitUntil,
                 github_cache, pass, lastReturn, started, last429,
                 repo_activity_cache, act>>

\* l.631-706: the detail of every fallback URL is requested, the answers are
\* pushed where their URL is new, the org repositories are deduplicated
FallbackRepos ==
  /\ merge.pc = "repoDetail"
  /\ \E kinds \in [1..Len(fallbackRepoUrls) -> DetailKinds] :
       LET fallbackRepos == [i \in 1..Len(fallbackRepoUrls) |->
                               Detail(fallbackRepoUrls[i], kinds[i])]
           m == IF Len(fallbackRepoUrls) > 0
                  THEN [merge EXCEPT
                          !.orgRepos = MapValues(Filtered(PushNew(@, fallbackRepos))),
                          !.fetched = fallbackRepos,
                          !.detailed = {fallbackRepoUrls[i] :
                                          i \in {j \in 1..Len(fallbackRepoUrls) :
                                                   kinds[j] # "failed"}}]
                  ELSE merge
       IN merge' = [m EXCEPT !.pc = "memberRepos"]
  /\ UNCHANGED beyondMerge
  /\ UNCHANGED <<clock, fallbackRepoUrls, canUseD1, memoryCache, rateLimitUntil,
                 github_cache, pass, lastReturn, started, last429,
                 repo_activity_cache, act>>

\* l.708-786: both topics are searched for every member, the results that no
\* org repository shadows become memberRepos, the totals are rebuilt
MemberRepos ==
  /\ merge.pc = "memberRepos"
  /\ \E answers \in [1..Len(merge.orgMembersList) -> [1..Len(topics) -> SearchAnswers]] :
       LET memberRepoResults == [i \in 1..Len(merge.orgMembersList) |->
                                   MemberResults(answers[i])]
           foundBy == [i \in 1..Len(merge.orgMembersList) |->
                         flat([k \in 1..Len(topics) |->
                                 IF answers[i][k].ok THEN answers[i][k].items ELSE <<>>])]
           memberRepos == MapValues(NotOfOrg(flat(memberRepoResults), merge.orgRepos))
           m == IF Len(merge.orgMembersList) > 0
                  THEN Tally([merge EXCEPT !.memberRepos = memberRepos,
                                           !.found = flat(foundBy), !.foundBy = foundBy],
                             memberRepos)
                  ELSE merge
       IN merge' = [Recomputed(m) EXCEPT !.pc = "assemble",
                                         !.before = [stars |-> m.stars, forks |-> m.forks]]
  /\ UNCHANGED beyondMerge
  /\ UNCHANGED <<clock, fallbackRepoUrls, canUseD1, memoryCache, rateLimitUntil,
                 github_cache, pass, lastReturn, started, last429,
                 repo_activity_cache, act>>

\* l.1164-1173
Assemble ==
  /\ merge.pc = "assemble"
  /\ merge' = [merge EXCEPT
       !.pc = "done",
       !.payload = [githubStats |-> [stars |-> merge.stars, forks |-> merge.forks,
                                     contributors |-> merge.orgMembers],
                    repoStats |-> merge.repoStats,
                    orgRepos |-> merge.orgRepos,
                    memberRepos |-> merge.memberRepos,
                    orgMembers |-> merge.orgMembersList,
                    memberDetails |-> merge.memberDetails]]
  /\ UNCHANGED beyondMerge
  /\ UNCHANGED <<clock, fallbackRepoUrls, canUseD1, memoryCache, rateLimitUntil,
                 github_cache, pass, lastReturn, started, last429,
                 repo_activity_cache, act>>

InitMerge ==
  /\ clock = T0
  /\ fallbackRepoUrls \in MergeFallbackLists
  /\ canUseD1 = [q \in Procs |-> q = "w1"]
  /\ memoryCache = [q \in Procs |-> [timestamp |-> 0, payload |-> NullPayload]]
  /\ rateLimitUntil = [q \in Procs |-> 0]
  /\ github_cache = <<>>
  /\ pass = [s \in Slots |-> IdlePass]
  /\ lastReturn = Returned(IdlePass)
  /\ started = 0
  /\ last429 = [q \in Procs |-> FALSE]
  /\ InitNoActivity
  /\ InitNoMerge
  /\ InitNoBlogs

NextMerge ==
  \/ ListMembers
  \/ ListPublicMembers
  \/ ListOrgRepos
  \/ FallbackRepos
  \/ MemberRepos
  \/ Assemble

SpecMerge == InitMerge /\ [][NextMerge]_vars

\* ------------------------------------------------------------------- C16
\* the payload of l.1164-1173 has been assembled by the invocation
Assembled == merge.pc = "done"

\* the distinct URLs of orgRepos and memberRepos of a payload
PayloadUrls(payload) == UrlsOf(Filtered(payload.orgRepos \o payload.memberRepos))

RECURSIVE SumOf(_, _, _)
SumOf(stats, keys, field) ==
  IF keys = {} THEN 0
  ELSE LET url == CHOOSE u \in keys : TRUE
       IN stats[url][field] + SumOf(stats, keys \ {url}, field)

\* C16: in every assembled payload repoStats has an entry for exactly the
\* distinct URLs of orgRepos and memberRepos, and githubStats.stars and
\* githubStats.forks are the sums of the stars and forks of those entries,
\* whatever the earlier steps of the invocation had added up.
C16_TotalsRebuiltFromUnion ==
  Assembled =>
    LET payload == merge.payload
    IN /\ DOMAIN payload.repoStats = PayloadUrls(payload)
       /\ payload.githubStats.stars =
            SumOf(payload.repoStats, DOMAIN payload.repoStats, "stars")
       /\ payload.githubStats.forks =
            SumOf(payload.repoStats, DOMAIN payload.repoStats, "forks")

\* a payload of three URLs whose totals differ from what the listing and the
\* search loops had added up before l.772
C16_Witness ==
  /\ Assembled
  /\ Cardinality(PayloadUrls(merge.payload)) = 3
  /\ merge.before.stars # merge.payload.githubStats.stars
  /\ merge.before.forks # merge.payload.githubStats.forks
  /\ merge.before.stars > 0

\* ------------------------------------------------------------------- C17
\* URLs that both the org listing and a topic search delivered, with
\* different star counts
Collisions ==
  {url \in UrlsOf(Filtered(merge.listed)) \cap UrlsOf(Filtered(merge.found)) :
     \E i \in 1..Len(merge.listed), j \in 1..Len(merge.found) :
       /\ merge.listed[i].html_url = url
       /\ merge.found[j].html_url = url
       /\ merge.listed[i].stargazers_count # merge.found[j].stargazers_count}

\* the URL is in the total once, with these stars
CountedOnceAs(url, stars) ==
  /\ merge.payload.repoStats[url].stars = stars
  /\ merge.payload.githubStats.stars =
       stars + SumOf(merge.payload.repoStats, DOMAIN merge.payload.repoStats \ {url},
                     "stars")

\* C17 as stated: a URL that the org listing and a topic search deliver with
\* different star counts is in the total once, with the stars of the entry
\* merged last, the org list being merged first and the member list after it.
C17_LastMergedCounted ==
  Assembled =>
    \A url \in Collisions :
      CountedOnceAs(url, Last(merge.listed \o merge.found, url).stargazers_count)

\* C17, amended: such a URL is in the total once, with the stars of the org
\* listing (of its last entry there); the entry of the search is dropped
\* before the lists are united.
C17_OrgValueCountedOnce ==
  Assembled =>
    \A url \in Collisions :
      CountedOnceAs(url, Last(merge.listed, url).stargazers_count)

\* "club" listed with 3 stars and found with 9: the total of 5 = 3 + 2 has it
\* once, with 3
C17_Witness ==
  /\ Assembled
  /\ "club" \in Collisions
  /\ merge.payload.repoStats["club"].stars = 3
  /\ Last(merge.found, "club").stargazers_count = 9
  /\ merge.payload.githubStats.stars = 5

\* ------------------------------------------------------------------- C18
\* no URL is the html_url of two entries of the array
NoUrlTwice(repos) ==
  \A i \in 1..Len(repos), j \in 1..Len(repos) :
    repos[i].html_url = repos[j].html_url => i = j

\* URLs that both the org listing and a topic search delivered
InBoth == UrlsOf(Filtered(merge.listed)) \cap UrlsOf(Filtered(merge.found))

\* C18: in every assembled payload no URL is in both orgRepos and
\* memberRepos, memberRepos has no URL twice, and a repository that both the
\* org listing and a topic search delivered is reported in orgRepos, every
\* entry of it being one the org listing delivered.
C18_OrgReposTakePrecedence ==
  Assembled =>
    LET payload == merge.payload
    IN /\ UrlsOf(payload.orgRepos) \cap UrlsOf(payload.memberRepos) = {}
       /\ NoUrlTwice(payload.memberRepos)
       /\ \A url \in InBoth :
            /\ \E i \in 1..Len(payload.orgRepos) : payload.orgRepos[i].html_url = url
            /\ \A i \in 1..Len(payload.orgRepos) :
                 payload.orgRepos[i].html_url = url =>
                   /\ payload.orgRepos[i].origin = "listing"
                   /\ payload.orgRepos[i] \in
                        {merge.listed[k] : k \in 1..Len(merge.listed)}

\* "club" is listed and found, "app" is found by both members with different
\* stars and reported once, as a member repository
C18_Witness ==
  /\ Assembled
  /\ "club" \in InBoth
  /\ Cardinality({merge.found[i] : i \in {j \in 1..Len(merge.found) :
                                            merge.found[j].html_url = "app"}}) = 2
  /\ UrlsOf(merge.payload.memberRepos) = {"app"}

\* ------------------------------------------------------------------- C19
\* a made-up entry: topic 'fallback', no stars, no forks
IsPlaceholder(repo) ==
  repo.topics = <<"fallback">> /\ repo.stargazers_count = 0 /\ repo.forks_count = 0

\* C19: an assembled payload reports no placeholder for a URL whose
\* repository detail request was answered 2xx in the invocation.
C19_LiveDataWins ==
  Assembled =>
    LET reported == merge.payload.orgRepos \o merge.payload.memberRepos
    IN \A i \in 1..Len(reported) :
         reported[i].html_url \in merge.detailed => ~IsPlaceholder(reported[i])

\* ------------------------------------------------------------------- C20
\* two members, a search result of one URL for each, one org repository
\* listed, three URLs in all
TwoMembersOneOrgRepo ==
  /\ Len(merge.orgMembersList) = 2
  /\ Len(merge.foundBy) = 2
  /\ \A i \in 1..2 :
       /\ Cardinality(UrlsOf(merge.foundBy[i])) = 1
       /\ NoUrl \notin UrlsOf(merge.foundBy[i])
  /\ Len(merge.listed) = 1
  /\ HasUrl(merge.listed[1])
  /\ Cardinality(UrlsOf(merge.listed) \cup UrlsOf(merge.found)) = 3

ThreeRepos ==
  /\ Len(merge.payload.orgRepos) = 1
  /\ Len(merge.payload.memberRepos) = 2
  /\ merge.payload.githubStats.contributors = 2
  /\ Cardinality(DOMAIN merge.payload.repoStats) = 3

\* C20 as stated: with two members who each own one repository that the topic
\* search finds and one org repository listed, three URLs in all, the payload
\* has one org repository, two member repositories, contributors = 2 and
\* three entries of repoStats.
C20_ThreeReposTwoContributors == Assembled /\ TwoMembersOneOrgRepo => ThreeRepos

\* the curated fallback list brings no repository that the org listing has not
NoFallbackBeyondListing == UrlsOf(merge.fetched) \subseteq UrlsOf(merge.listed)

\* C20, amended: the same when the fallback list is empty or the repository
\* detail of each of its URLs carries the URL of the listed org repository.
C20_ThreeReposWithoutFallbacks ==
  Assembled /\ TwoMembersOneOrgRepo /\ NoFallbackBeyondListing => ThreeRepos

\* the scenario with "club" listed and on the fallback list, "app" and "kit"
\* found
C20_Witness ==
  /\ Assembled
  /\ TwoMembersOneOrgRepo
  /\ NoFallbackBeyondListing
  /\ fallbackRepoUrls = <<"club">>
  /\ UrlsOf(merge.payload.orgRepos) = {"club"}
  /\ UrlsOf(merge.payload.memberRepos) = {"app", "kit"}
  /\ merge.payload.githubStats.contributors = 2

\* ====================================================== reaction endpoint
\* src/routes/api/blogs/[slug]/reaction/+server.ts with CACHE_DB bound: POST
\* in two steps, up to the SELECT and from there to the response, and GET.

MAX_EMOJI_LENGTH == 8
COOLDOWN_MS == 3000
MaxPosts == 3             \* POST requests made in one behaviour
MaxWaits == 1             \* advances of the clock in one behaviour
Waits == {COOLDOWN_MS - 1, COOLDOWN_MS}

\* strings are arrays of characters
X == <<"X">>
Y == <<"Y">>
valueOf == <<"v", "a", "l", "u", "e", "O", "f">>
Blank == " "

\* body.emoji of a request: no string (no body, no emoji, a number) or a string
NoString == [isString |-> FALSE, text |-> <<>>]
String(text) == [isString |-> TRUE, text |-> text]
Emojis ==
  {NoString, String(<<>>), String(<<Blank, Blank>>),
   String(X), String(<<Blank, "X", Blank>>), String(Y), String(valueOf),
   String(<<"1", "2", "3", "4", "5", "6", "7", "8", "9">>),
   String(<<Blank, "1", "2", "3", "4", "5", "6", "7", "8", "9">>),
   String(<<Blank, Blank, Blank, Blank, "X", Blank, Blank, Blank, Blank>>)}

\* String.prototype.trim without the trimming
untrimmed(text) == text

\* String.prototype.trim
RECURSIVE trim(_)
trim(text) ==
  IF text = <<>> THEN text
  ELSE IF Head(text) = Blank THEN trim(Tail(text))
  ELSE IF text[Len(text)] = Blank THEN trim(SubSeq(text, 1, Len(text) - 1))
  ELSE text

\* client addresses; NoIp: none can be determined (l.81-89)
NoIp == ""
Ips == {"ip1", "ip2"}
\* mutant of sha256: the text itself
unhashed(text) == <<text>>

sha256(text) == <<"sha256", text>>

\* slugs of requests; only the first has a row
Slugs == {"post", "ghost"}

\* ---- values of counts
Undefined == [t |-> "undefined", n |-> 0]
Function == [t |-> "function", n |-> 0]   \* a method of Object.prototype
Number(n) == [t |-> "number", n |-> n]
NaN == [t |-> "NaN", n |-> 0]
Text == [t |-> "string", n |-> 0]         \* the source text of a function and a digit
Null == [t |-> "null", n |-> 0]

\* names that every object inherits from Object.prototype, of at most
\* MAX_EMOJI_LENGTH characters
Inherited == {valueOf, <<"t", "o", "S", "t", "r", "i", "n", "g">>}

\* counts[emoji], own properties only
OwnProperty(counts, emoji) == IF emoji \in DOMAIN counts THEN counts[emoji] ELSE Undefined

\* counts[emoji]
Property(counts, emoji) ==
  IF emoji \in DOMAIN counts THEN counts[emoji]
  ELSE IF emoji \in Inherited THEN Function
  ELSE Undefined

\* object[key] = value
Set(object, key, value) ==
  [k \in DOMAIN object \cup {key} |-> IF k = key THEN value ELSE object[k]]

\* delete object[key]
Delete(object, key) == [k \in DOMAIN object \ {key} |-> object[k]]

\* Math.max(0, (value ?? 1) - 1)
Decremented(value) ==
  IF value.t = "undefined" THEN Number(0)
  ELSE IF value.t = "number" THEN Number(IF value.n > 1 THEN value.n - 1 ELSE 0)
  ELSE NaN

\* (value ?? 0) + 1
Incremented(value) ==
  IF value.t = "undefined" THEN Number(1)
  ELSE IF value.t = "number" THEN Number(value.n + 1)
  ELSE Text

\* ---- the column reactions
EmptyState == [counts |-> NoProperties, ipMap |-> NoProperties]

\* a column that is NULL
NullReactions == [null |-> TRUE, parses |-> FALSE, value |-> EmptyState]

\* JSON.stringify(state): NaN becomes null
StringifyState(state) ==
  [null |-> FALSE, parses |-> TRUE,
   value |-> [state EXCEPT !.counts =
                [emoji \in DOMAIN state.counts |->
                   IF state.counts[emoji].t = "NaN" THEN Null ELSE state.counts[emoji]]]]

\* l.19-29: the counts that are numbers above 0
normalizeReactionCounts(obj) ==
  [emoji \in {e \in DOMAIN obj : obj[e].t = "number" /\ obj[e].n > 0} |-> obj[emoji]]

\* l.31-71
parseReactionState(raw) ==
  IF raw.null \/ ~raw.parses THEN EmptyState
  ELSE [counts |-> normalizeReactionCounts(raw.value.counts), ipMap |-> raw.value.ipMap]

\* a row of the table, as the blog merge seeds it (+page.server.ts l.1117-1133)
SeededRow(slug) ==
  [slug |-> slug, title |-> slug, content |-> "wiki", author |-> "contributor-club",
   created_at |-> 0, modified_at |-> 0, reactions |-> StringifyState(EmptyState)]

\* ---- responses
Refusal(status) == [NoAnswer EXCEPT !.status = status]
Answer(status, counts, userReaction, limited) ==
  [status |-> status, counts |-> counts, userReaction |-> userReaction, limited |-> limited]

\* the state of everything but the blogs, the requests and the clock
besideReact ==
  <<fallbackRepoUrls, canUseD1, memoryCache, rateLimitUntil, github_cache, pass,
    lastReturn, started, last429, repo_activity_cache, act, merge, wiki, norm, contact>>

\* a request that the step has answered: its method, its body.emoji (for a
\* request that read its row, the emoji), whether its client is known and
\* the row of its slug there, and the response
Answered(method, body, client, found, response) ==
  [method |-> method, body |-> body, client |-> client, found |-> found,
   response |-> response]

\* l.94-134: the request is refused, or the row of the slug is read
PostRead(s) ==
  /\ react.req[s].pc = "idle"
  /\ react.posts < MaxPosts
  /\ react.serial => s = 1 /\ \A o \in ReqSlots : react.req[o].pc = "idle"
  /\ \E body \in Emojis, ip \in Ips \cup {NoIp}, slug \in Slugs :
       LET emoji == IF body.isString THEN trim(body.text) ELSE NoEmoji
           invalid == emoji = NoEmoji \/ Len(emoji) > MAX_EMOJI_LENGTH
           refusal == IF invalid THEN 400
                      ELSE IF ip = NoIp THEN 400
                      ELSE IF slug \notin DOMAIN blogs THEN 404
                      ELSE 0
       IN react' =
            IF refusal # 0
              THEN [react EXCEPT
                      !.req[s] = IdleRequest,
                      !.posts = @ + 1,
                      !.last = Answered("POST", body, ip # NoIp, slug \in DOMAIN blogs,
                                        Refusal(refusal))]
              ELSE [react EXCEPT
                      !.req[s] = [IdleRequest EXCEPT
                                    !.pc = "read", !.ip = ip, !.slug = slug, !.emoji = emoji,
                                    !.row = [reactions |-> blogs[slug].reactions]],
                      !.posts = @ + 1,
                      !.last = NoRequest,
                      !.overlapped = @ \/ \E o \in ReqSlots : react.req[o].pc = "read"]
  /\ UNCHANGED <<clock, blogs>>
  /\ UNCHANGED besideReact

\* l.140 with a cooldown one millisecond shorter
LimitedShort(state, actorKey, emoji, now) ==
  /\ actorKey \in DOMAIN state.ipMap
  /\ state.ipMap[actorKey].emoji # emoji
  /\ now - state.ipMap[actorKey].ts < COOLDOWN_MS - 1

\* l.140: existing && existing.emoji !== emoji && now - existing.ts < COOLDOWN_MS
Limited(state, actorKey, emoji, now) ==
  /\ actorKey \in DOMAIN state.ipMap
  /\ state.ipMap[actorKey].emoji # emoji
  /\ now - state.ipMap[actorKey].ts < COOLDOWN_MS

\* the row as it is when the response is made, not as l.127 read it
RowNow(s) == [reactions |-> blogs[react.req[s].slug].reactions]

\* row of l.127-130, read before the await
RowRead(s) == react.req[s].row

\* l.136-187: rejected while cooling down, toggled off, switched or added;
\* the UPDATE may fail
PostWrite(s) ==
  /\ react.req[s].pc = "read"
  /\ \E updated \in BOOLEAN :
       LET request == react.req[s]
           emoji == request.emoji
           actorKey == sha256(request.ip)
           state == parseReactionState(RowRead(s).reactions)
           now == clock
           has == actorKey \in DOMAIN state.ipMap
           existing == state.ipMap[actorKey]
           toggled == [counts |-> Set(state.counts, emoji,
                                      Decremented(Property(state.counts, emoji))),
                       ipMap |-> Delete(state.ipMap, actorKey)]
           released == IF has /\ existing.emoji # NoEmoji /\ existing.emoji # emoji
                         THEN Set(state.counts, existing.emoji,
                                  Decremented(Property(state.counts, existing.emoji)))
                         ELSE state.counts
           added == [counts |-> Set(released, emoji, Incremented(Property(released, emoji))),
                     ipMap |-> Set(state.ipMap, actorKey,
                                   [emoji |-> emoji, ts |-> now, ip |-> actorKey])]
           limited == Limited(state, actorKey, emoji, now)
           next == IF has /\ existing.emoji = emoji THEN toggled ELSE added
           response ==
             IF limited THEN Answer(429, state.counts, existing.emoji, TRUE)
             ELSE IF ~updated THEN Refusal(500)
             ELSE IF has /\ existing.emoji = emoji THEN Answer(200, next.counts, NoEmoji, FALSE)
             ELSE Answer(200, next.counts, emoji, FALSE)
       IN /\ (limited => updated)
          /\ react' = [react EXCEPT
               !.req[s] = [request EXCEPT !.pc = "idle", !.response = response],
               !.was = IF limited \/ ~updated \/ ~has THEN @
                       ELSE Set(@, actorKey,
                                [emoji |-> existing.emoji, ts |-> existing.ts,
                                 toggled |-> existing.emoji = emoji]),
               !.last = Answered("POST", String(emoji), TRUE, TRUE, response)]
          /\ blogs' = IF limited \/ ~updated THEN blogs
                      ELSE [blogs EXCEPT ![request.slug] =
                              [@ EXCEPT !.reactions = StringifyState(next),
                                        !.modified_at = now]]
  /\ UNCHANGED clock
  /\ UNCHANGED besideReact

\* l.190-221
Get ==
  /\ react.last.method # "GET"
  /\ \E ip \in Ips \cup {NoIp}, slug \in Slugs :
       LET state == parseReactionState(blogs[slug].reactions)
           ipHash == sha256(ip)
           userReaction == IF ip # NoIp /\ ipHash \in DOMAIN state.ipMap
                             THEN state.ipMap[ipHash].emoji ELSE NoEmoji
       IN react' = [react EXCEPT !.last =
            Answered("GET", NoString, ip # NoIp, slug \in DOMAIN blogs,
                     IF slug \notin DOMAIN blogs THEN Refusal(404)
                     ELSE Answer(200, state.counts, userReaction, FALSE))]
  /\ UNCHANGED <<clock, blogs>>
  /\ UNCHANGED besideReact

\* time passes
Wait ==
  /\ react.waits < MaxWaits
  /\ \E d \in Waits : clock' = clock + d
  /\ react' = [react EXCEPT !.waits = @ + 1, !.last = NoRequest]
  /\ UNCHANGED blogs
  /\ UNCHANGED besideReact

InitReact ==
  /\ clock = T0
  /\ fallbackRepoUrls = <<>>
  /\ canUseD1 = [q \in Procs |-> q = "w1"]
  /\ memoryCache = [q \in Procs |-> [timestamp |-> 0, payload |-> NullPayload]]
  /\ rateLimitUntil = [q \in Procs |-> 0]
  /\ github_cache = <<>>
  /\ pass = [s \in Slots |-> IdlePass]
  /\ lastReturn = Returned(IdlePass)
  /\ started = 0
  /\ last429 = [q \in Procs |-> FALSE]
  /\ InitNoActivity
  /\ InitNoMerge
  /\ blogs \in {[slug \in {"post"} |-> [SeededRow(slug) EXCEPT !.reactions = column]] :
                  column \in {NullReactions, StringifyState(EmptyState)}}
  /\ react = IdleReact
  /\ wiki = IdleWiki
  /\ norm = IdleNorm
  /\ contact = IdleContact

NextReact ==
  \/ \E s \in ReqSlots : PostRead(s)
  \/ \E s \in ReqSlots : PostWrite(s)
  \/ Get
  \/ Wait

\* requests made one at a time
SpecReact == InitReact /\ [][NextReact]_vars

\* the same table, the clients not waiting for each other's responses
InitRace ==
  /\ clock = T0
  /\ fallbackRepoUrls = <<>>
  /\ canUseD1 = [q \in Procs |-> q = "w1"]
  /\ memoryCache = [q \in Procs |-> [timestamp |-> 0, payload |-> NullPayload]]
  /\ rateLimitUntil = [q \in Procs |-> 0]
  /\ github_cache = <<>>
  /\ pass = [s \in Slots |-> IdlePass]
  /\ lastReturn = Returned(IdlePass)
  /\ started = 0
  /\ last429 = [q \in Procs |-> FALSE]
  /\ InitNoActivity
  /\ InitNoMerge
  /\ blogs = [slug \in {"post"} |-> SeededRow(slug)]
  /\ react = [IdleReact EXCEPT !.serial = FALSE]
  /\ wiki = IdleWiki
  /\ norm = IdleNorm
  /\ contact = IdleContact

NextRace ==
  \/ \E s \in ReqSlots : PostRead(s)
  \/ \E s \in ReqSlots : PostWrite(s)

SpecRace == InitRace /\ [][NextRace]_vars

\* ------------------------------------------------------------------- C21
\* the ReactionState of the post, as the next request will read it
Persisted == parseReactionState(blogs["post"].reactions)

\* the actor keys whose entry points at the emoji
ActorsOf(state, emoji) == {key \in DOMAIN state.ipMap : state.ipMap[key].emoji = emoji}

\* counts[emoji], 0 where the emoji has no count
CountOf(state, emoji) ==
  IF emoji \in DOMAIN state.counts /\ state.counts[emoji].t = "number"
    THEN state.counts[emoji].n ELSE 0

\* the emojis that have a count or an actor
EmojisOf(state) ==
  DOMAIN state.counts \cup {state.ipMap[key].emoji : key \in DOMAIN state.ipMap}

\* C21: after react actions made one at a time on a post whose state started
\* empty, every actor key present has one emoji, and the count of every emoji
\* is a number, not negative, that equals the number of actor keys pointing
\* at the emoji.
C21_CountsMatchAttributions ==
  /\ \A key \in DOMAIN Persisted.ipMap : Persisted.ipMap[key].emoji # NoEmoji
  /\ \A emoji \in EmojisOf(Persisted) :
       /\ OwnProperty(Persisted.counts, emoji).t \in {"undefined", "number"}
       /\ CountOf(Persisted, emoji) >= 0
       /\ CountOf(Persisted, emoji) = Cardinality(ActorsOf(Persisted, emoji))

\* ------------------------------------------------------------------- C22
\* the request of the slot is answered in this step, with this status
Answers(s, status) ==
  /\ react.req[s].pc = "read"
  /\ react'.req[s].pc = "idle"
  /\ react'.req[s].response.status = status

\* the actor of the request of the slot, and the emoji the actor has
ActorOf(s) == sha256(react.req[s].ip)
HasEmoji(state, key) == key \in DOMAIN state.ipMap
EmojiOf(state, key) == IF HasEmoji(state, key) THEN state.ipMap[key].emoji ELSE NoEmoji

\* C22: a react with the emoji the actor already has is never held back by
\* the cooldown and takes one from the count of the emoji and the actor's
\* entry away; a react of an actor without an entry adds one to the count of
\* the emoji and attributes the emoji to the actor.  Hence X, X leaves the
\* count where it was and X, X, X leaves it one higher, with X attributed.
C22_ToggleOffAndOn ==
  [][\A s \in ReqSlots :
       LET emoji == react.req[s].emoji
       IN /\ react.req[s].pc = "read" /\ react'.req[s].pc = "idle"
               /\ EmojiOf(Persisted, ActorOf(s)) = emoji
               => ~Answers(s, 429)
          /\ Answers(s, 200) /\ EmojiOf(Persisted, ActorOf(s)) = emoji
               => /\ CountOf(Persisted', emoji) = CountOf(Persisted, emoji) - 1
                  /\ ~HasEmoji(Persisted', ActorOf(s))
          /\ Answers(s, 200) /\ ~HasEmoji(Persisted, ActorOf(s))
               => /\ CountOf(Persisted', emoji) = CountOf(Persisted, emoji) + 1
                  /\ EmojiOf(Persisted', ActorOf(s)) = emoji
                  /\ react'.req[s].response.counts = Persisted'.counts
                  /\ react'.req[s].response.userReaction = emoji]_vars

\* ------------------------------------------------------------------- C23
ThreeSeconds == 3 * 1000

\* the time of the last change of the actor
ChangedAt(state, key) == state.ipMap[key].ts

\* the request of the slot is by an actor whose emoji is another one
Switches(s) ==
  /\ react.req[s].pc = "read"
  /\ react'.req[s].pc = "idle"
  /\ HasEmoji(Persisted, ActorOf(s))
  /\ EmojiOf(Persisted, ActorOf(s)) # react.req[s].emoji

\* C23: a react with another emoji than the actor has, less than 3 seconds
\* after the actor's last change, is answered 429 with limited = true, the
\* counts as they were and the emoji the actor has; the row is not written.
C23_SwitchTooSoonRejected ==
  [][\A s \in ReqSlots :
       Switches(s) /\ clock - ChangedAt(Persisted, ActorOf(s)) < ThreeSeconds
         => /\ react'.req[s].response =
                 Answer(429, Persisted.counts, EmojiOf(Persisted, ActorOf(s)), TRUE)
            /\ blogs' = blogs]_vars

\* X was set, 2999 ms later a react with Y has been answered 429
C23_Witness ==
  /\ react.last.response.status = 429
  /\ react.last.response.limited
  /\ react.last.response.userReaction = X
  /\ react.req[1].emoji = Y
  /\ clock - ChangedAt(Persisted, sha256(react.req[1].ip)) = ThreeSeconds - 1
  /\ CountOf(Persisted, X) = 1

\* ------------------------------------------------------------------- C24
\* one less, but not less than 0
OneLess(n) == IF n > 0 THEN n - 1 ELSE 0

\* C24: a react with another emoji Y than the X the actor has, 3 seconds or
\* more after the actor's last change, is not held back; where the row is
\* written, the count of X is one less (not below 0), the count of Y one
\* more, the actor's entry is Y at the time of the request, and the other
\* counts and the other actors' entries are as they were.
C24_SwitchAfterCooldown ==
  [][\A s \in ReqSlots :
       LET from == EmojiOf(Persisted, ActorOf(s))
           to == react.req[s].emoji
       IN Switches(s) /\ clock - ChangedAt(Persisted, ActorOf(s)) >= ThreeSeconds
            => /\ ~Answers(s, 429)
               /\ Answers(s, 200) =>
                    /\ CountOf(Persisted', from) = OneLess(CountOf(Persisted, from))
                    /\ CountOf(Persisted', to) = CountOf(Persisted, to) + 1
                    /\ EmojiOf(Persisted', ActorOf(s)) = to
                    /\ ChangedAt(Persisted', ActorOf(s)) = clock
                    /\ \A emoji \in (EmojisOf(Persisted) \cup EmojisOf(Persisted')) \ {from, to} :
                         CountOf(Persisted', emoji) = CountOf(Persisted, emoji)
                    /\ \A key \in (DOMAIN Persisted.ipMap \cup DOMAIN Persisted'.ipMap)
                                    \ {ActorOf(s)} :
                         /\ key \in DOMAIN Persisted.ipMap
                         /\ key \in DOMAIN Persisted'.ipMap
                         /\ Persisted'.ipMap[key] = Persisted.ipMap[key]]_vars

\* ------------------------------------------------------------------- C25
\* the state that the request of the slot read at its SELECT
ReadBy(s) == parseReactionState(react.req[s].row.reactions)

\* C25: a reaction is written from what the request read, without a look at
\* what the row has become: after a request has written, the entry of every
\* other actor is what this request read, so that the change of a request
\* that wrote in between is lost although both were answered 200.
C25_WritesWhatItRead ==
  [][\A s \in ReqSlots :
       Answers(s, 200) =>
         \A ip \in Ips :
           sha256(ip) # ActorOf(s) =>
             /\ HasEmoji(Persisted', sha256(ip)) = HasEmoji(ReadBy(s), sha256(ip))
             /\ EmojiOf(Persisted', sha256(ip)) = EmojiOf(ReadBy(s), sha256(ip))]_vars

\* two requests of different actors read the empty state, both were
\* answered 200 with their emoji, and the row has one actor and one count
C25_Witness ==
  /\ react.overlapped
  /\ \A s \in ReqSlots :
       /\ react.req[s].pc = "idle"
       /\ react.req[s].response.status = 200
       /\ react.req[s].response.userReaction = react.req[s].emoji
       /\ react.req[s].row.reactions = StringifyState(EmptyState)
  /\ react.req[1].ip # react.req[2].ip
  /\ Cardinality(DOMAIN Persisted.ipMap) = 1
  /\ \A emoji \in EmojisOf(Persisted) :
       CountOf(Persisted, emoji) = Cardinality(ActorsOf(Persisted, emoji))
  /\ Cardinality(EmojisOf(Persisted)) = 1

\* ------------------------------------------------------------------- C26
\* the characters of a text between its first and its last character that
\* is not a blank, counted
Inner(text) ==
  LET solid == {i \in 1..Len(text) : text[i] # Blank}
  IN IF solid = {} THEN 0
     ELSE (CHOOSE i \in solid : \A j \in solid : j <= i)
          - (CHOOSE i \in solid : \A j \in solid : i <= j) + 1

\* body.emoji is missing or no string, empty after trimming, or longer than
\* 8 characters after trimming
InvalidEmoji(body) == ~body.isString \/ Inner(body.text) = 0 \/ Inner(body.text) > 8

\* the step answers a request
AnswersRequest == react'.last # NoRequest /\ react'.last # react.last

Https == <<"https:", "/", "/">>
GithubCom == <<"github", ".", "com">>
OwnerRepo == <<"owner", "/", "repo">>

\* https://github.com/owner/repo
Canonical == Https \o GithubCom \o <<"/">> \o OwnerRepo

Url(text) == [null |-> FALSE, url |-> text]

toLowerCase(piece) ==
  CASE piece = "HTTPS:" -> "https:"
    [] piece = "GitHub" -> "github"
    [] piece = "Ann" -> "ann"
    [] OTHER -> piece

\* the pieces of a text before its first piece out of marks
Before(text, marks) ==
  LET found == {i \in 1..Len(text) : text[i] \in marks}
  IN IF found = {} THEN text
     ELSE SubSeq(text, 1, (CHOOSE i \in found : \A j \in found : i <= j) - 1)

\* the pieces of a text from its first piece out of marks on
From(text, marks) == SubSeq(text, Len(Before(text, marks)) + 1, Len(text))

\* l.122: .replace(/^\/+|\/+$/g, ''), the slashes at the two ends of a text
RECURSIVE stripSlashes(_)
stripSlashes(text) ==
  IF text = <<>> THEN text
  ELSE IF Head(text) = "/" THEN stripSlashes(Tail(text))
  ELSE IF text[Len(text)] = "/" THEN stripSlashes(SubSeq(text, 1, Len(text) - 1))
  ELSE text

\* l.125: /^https?:\/\//i.test(trimmed)
hasScheme(text) ==
  /\ Len(text) >= 3
  /\ toLowerCase(text[1]) \in {"https:", "http:"}
  /\ text[2] = "/"
  /\ text[3] = "/"

\* new URL(text).hostname of a text with a scheme, in lower case
hostname(text) ==
  LET host == Before(SubSeq(text, 4, Len(text)), {"/", "?", "#"})
  IN [i \in 1..Len(host) |-> toLowerCase(host[i])]

\* new URL(text).pathname
pathname(text) ==
  LET path == Before(From(SubSeq(text, 4, Len(text)), {"/", "?", "#"}), {"?", "#"})
  IN IF path = <<>> THEN <<"/">> ELSE path

\* String.prototype.endsWith
endsWith(text, suffix) ==
  /\ Len(text) >= Len(suffix)
  /\ SubSeq(text, Len(text) - Len(suffix) + 1, Len(text)) = suffix

\* l.120-139
normalizeRepoUrl(value) ==
  IF value = <<>> THEN NullUrl
  ELSE LET trimmed == stripSlashes(trim(value))
       IN IF trimmed = <<>> THEN NullUrl
          ELSE IF hasScheme(trimmed)
            THEN IF hostname(trimmed) = <<>> THEN NullUrl     \* new URL throws
                 ELSE IF ~endsWith(hostname(trimmed), GithubCom) THEN NullUrl
                 ELSE Url(<<toLowerCase(trimmed[1]), "/", "/">> \o hostname(trimmed)
                            \o pathname(trimmed))
          ELSE IF \A i \in 1..Len(trimmed) : trimmed[i] # "/" THEN NullUrl
          ELSE Url(Https \o GithubCom \o <<"/">> \o trimmed)

\* ---- the values
Schemes == {Https, <<"http:", "/", "/">>, <<"HTTPS:", "/", "/">>}
Hosts ==
  {GithubCom, <<"GitHub", ".", "com">>, <<"www", ".", "github", ".", "com">>,
   <<"not", "github", ".", "com">>, <<"example", ".", "com">>,
   <<"github", ".", "com", ".", "example", ".", "com">>}
Paths == {<<>>, <<"/", "owner">>, <<"/">> \o OwnerRepo}
Slashes == {<<>>, <<"/">>}
Queries == {<<>>, <<"?", "tab">>}
Fragments == {<<>>, <<"#", "readme">>}
Pads == {<<>>, <<Blank>>}

FullUrls ==
  {scheme \o host \o path \o slash \o query \o fragment :
     scheme \in Schemes, host \in Hosts, path \in Paths, slash \in Slashes,
     query \in Queries, fragment \in Fragments}

Bare ==
  {<<>>, <<"owner">>, <<"/">>, <<"https:", "/", "/">>}
    \cup {lead \o OwnerRepo \o slash \o query :
            lead \in Slashes, slash \in Slashes, query \in Queries}

Values == {pad \o text \o pad : pad \in Pads, text \in FullUrls \cup Bare}

\* the lines that the bundled list may hold
Lines ==
  {<<>>, OwnerRepo, <<Blank>> \o OwnerRepo, Canonical \o <<"/">>,
   Https \o <<"not", "github", ".", "com", "/">> \o OwnerRepo,
   Https \o <<"example", ".", "com", "/">> \o OwnerRepo}

Files == {<<>>} \cup {<<line>> : line \in Lines}
           \cup {<<one, other>> : one \in Lines, other \in Lines}

\* Array.from(new Set(urls)): each url at the place where it is first
RECURSIVE Unique(_)
Unique(urls) ==
  IF urls = <<>> THEN <<>>
  ELSE LET rest == Unique(SubSeq(urls, 1, Len(urls) - 1))
           url == urls[Len(urls)]
       IN IF \E i \in 1..Len(rest) : rest[i] = url THEN rest ELSE Append(rest, url)

\* l.403-412: the lines trimmed, the empty ones left out, each normalized,
\* the nulls left out, each url once
LoadedUrls(file) ==
  LET lines == SelectSeq([i \in 1..Len(file) |-> trim(file[i])], LAMBDA line : line # <<>>)
      urls == SelectSeq([i \in 1..Len(lines) |-> normalizeRepoUrl(lines[i])],
                        LAMBDA url : ~url.null)
  IN Unique([i \in 1..Len(urls) |-> urls[i].url])

besideNorm ==
  <<clock, canUseD1, memoryCache, rateLimitUntil, github_cache, pass, lastReturn,
    started, last429, repo_activity_cache, act, merge, blogs, react, wiki, contact>>

\* l.400-416: load reads the bundled list
LoadFallbackList ==
  /\ ~norm.loaded
  /\ fallbackRepoUrls' = LoadedUrls(norm.file)
  /\ norm' = [norm EXCEPT !.loaded = TRUE]
  /\ UNCHANGED besideNorm

\* a call of normalizeRepoUrl
Normalize ==
  \E value \in Values :
    /\ ~norm.applied
    /\ norm' = [norm EXCEPT !.applied = TRUE, !.value = value,
                            !.result = normalizeRepoUrl(value)]
    /\ UNCHANGED fallbackRepoUrls
    /\ UNCHANGED besideNorm

InitNorm ==
  /\ clock = T0
  /\ fallbackRepoUrls = <<>>
  /\ canUseD1 = [q \in Procs |-> q = "w1"]
  /\ memoryCache = [q \in Procs |-> [timestamp |-> 0, payload |-> NullPayload]]
  /\ rateLimitUntil = [q \in Procs |-> 0]
  /\ github_cache = <<>>
  /\ pass = [s \in Slots |-> IdlePass]
  /\ lastReturn = Returned(IdlePass)
  /\ started = 0
  /\ last429 = [q \in Procs |-> FALSE]
  /\ InitNoActivity
  /\ InitNoMerge
  /\ blogs = NoRows
  /\ react = IdleReact
  /\ wiki = IdleWiki
  /\ norm \in {[IdleNorm EXCEPT !.file = file] : file \in Files}
  /\ contact = IdleContact

NextNorm ==
  \/ LoadFallbackList
  \/ Normalize

SpecNorm == InitNorm /\ [][NextNorm]_vars

\* ------------------------------------------------------------------- C28
\* https://github.com/owner/repo with or without a trailing slash, a query
\* and a fragment
FullForms ==
  {Canonical \o slash \o query \o fragment :
     slash \in Slashes, query \in Queries, fragment \in Fragments}

\* C28: normalizeRepoUrl maps the bare owner/repo and every full
\* https://github.com/owner/repo URL, with any combination of a trailing
\* slash, a query and a fragment, to the same canonical string.
C28_OneCanonicalString ==
  norm.applied /\ norm.value \in FullForms \cup {OwnerRepo}
    => norm.result = Url(Canonical)

\* ------------------------------------------------------------------- C29
\* a text with a scheme whose hostname is not github.com
ForeignHost(text) == hasScheme(text) /\ hostname(text) # GithubCom

\* C29: normalizeRepoUrl returns null for every value whose hostname is not
\* github.com, also for one that only ends in github.com, and no such
\* reference is in the fallback list that load reads.
C29_ForeignHostsRejected ==
  /\ norm.applied /\ ForeignHost(stripSlashes(trim(norm.value))) => norm.result = NullUrl
  /\ \A i \in 1..Len(fallbackRepoUrls) : ~ForeignHost(fallbackRepoUrls[i])

\* ======================================================================
\* Blog merge (+page.server.ts l.978-1161): the posts of the table blogs
\* and of the wiki. A title, a file name and a slug are the sequences of
\* their characters.
\* ======================================================================
MaxBlogPasses == 2        \* invocations of load in one behaviour

\* ---- l.174-184: slugifyTitle
LowerCase == [c \in {"P", "N"} |-> IF c = "P" THEN "p" ELSE "n"]
lower(text) == [i \in 1..Len(text) |-> IF text[i] \in DOMAIN LowerCase
                                         THEN LowerCase[text[i]] ELSE text[i]]

\* the characters of the model that /[a-z0-9]/ matches
Alphanumeric == {"p", "o", "s", "t", "n", "a", "b", "x", "1", "2", "3"}

\* .replace(/\s+/g, '-')
RECURSIVE hyphenated(_)
hyphenated(text) ==
  IF text = <<>> THEN <<>>
  ELSE IF Head(text) # Blank THEN <<Head(text)>> \o hyphenated(Tail(text))
  ELSE IF Len(text) > 1 /\ text[2] = Blank THEN hyphenated(Tail(text))
  ELSE <<"-">> \o hyphenated(Tail(text))

slugifyTitle(title, fallback) ==
  LET kept == SelectSeq(lower(title), LAMBDA c : c \in Alphanumeric \cup {Blank, "-"})
      dashed == hyphenated(trim(kept))
      base == SubSeq(dashed, 1, IF Len(dashed) < 64 THEN Len(dashed) ELSE 64)
      safe == SelectSeq(fallback, LAMBDA c : lower(<<c>>)[1] \in Alphanumeric \cup {"-"})
      safeFallback == IF safe = <<>> THEN <<"p", "o", "s", "t">> ELSE safe
  IN IF base # <<>> THEN base ELSE lower(safeFallback)

\* mutant of ShortIds: shortId returns one token ever
SameShortId == {<<"1">>}

\* l.187-189: the tokens that shortId can return, one character for six
ShortIds == {<<"1">>, <<"2">>, <<"3">>}

\* ---- l.983-1061: the files of the wiki
NoSite == ""
NoDate == 0
MarkdownFile(name, heading, content, date) ==
  [name |-> name,         \* file.name without .md
   heading |-> heading,   \* the first line with #, without it; <<>> if there is none
   content |-> content,   \* the text, of which the first other line is the description
   latestDate |-> date]   \* of the last commit; NoDate if that was not to be had

Post1 == MarkdownFile(<<"P", "o", "s", "t">>, <<>>, "v1", 1)
Post2 == MarkdownFile(<<"P", "o", "s", "t">>, <<>>, "v2", 2)
Other == MarkdownFile(<<"x">>, <<"p", "o", "s", "t", "!">>, "other", 1)
Notes == MarkdownFile(<<"a", "_", "b">>, <<>>, "notes", NoDate)
Bang == MarkdownFile(<<"N">>, <<"!">>, "bang", 1)

WikiListings == {<<>>, <<Post1>>, <<Post2>>, <<Post1, Other>>, <<Notes, Post2>>, <<Bang>>}

\* l.1039: file.name.replace(/\.md$/, '').replace(/[-_]/g, ' ')
fileTitle(name) == [i \in 1..Len(name) |-> IF name[i] \in {"-", "_"} THEN Blank ELSE name[i]]

\* l.1033-1056
BlogEntry(file, now) ==
  LET title == IF file.heading # <<>> THEN file.heading ELSE fileTitle(file.name)
      createdAt == IF file.latestDate # NoDate THEN file.latestDate ELSE now
  IN [slug |-> slugifyTitle(title, file.name),
      title |-> title,
      description |-> file.content,
      content |-> file.content,
      author |-> "contributor-club",
      authorUrl |-> NoSite,
      createdAt |-> createdAt,
      modifiedAt |-> createdAt,
      reactions |-> NoProperties]

\* .sort((a, b) => new Date(b.createdAt) - new Date(a.createdAt)): the
\* newest first, equal ones in the order they had
RECURSIVE byCreatedAt(_)
byCreatedAt(posts) ==
  IF posts = <<>> THEN <<>>
  ELSE LET sorted == byCreatedAt(SubSeq(posts, 1, Len(posts) - 1))
           post == posts[Len(posts)]
           ahead == Cardinality({i \in 1..Len(sorted) : sorted[i].createdAt >= post.createdAt})
       IN SubSeq(sorted, 1, ahead) \o <<post>> \o SubSeq(sorted, ahead + 1, Len(sorted))

\* ---- l.204-256: a row of the table as a post
\* l.204-214, with Number(value) and the counts[emoji] of an empty object
pageNormalizeReactionCounts(obj) ==
  [emoji \in {e \in DOMAIN obj : obj[e].t = "number" /\ obj[e].n > 0} |->
     IF emoji \in Inherited THEN Text ELSE obj[emoji]]

\* l.217-238
parseReactions(raw) ==
  IF raw.null \/ ~raw.parses THEN NoProperties
  ELSE pageNormalizeReactionCounts(raw.value.counts)

\* l.241-256, of a row that has a slug and a title
mapDbBlog(row) ==
  [slug |-> row.slug,
   title |-> row.title,
   description |-> row.description,
   content |-> row.content,
   author |-> row.author,
   authorUrl |-> row.author_url,
   createdAt |-> row.created_at,
   modifiedAt |-> row.modified_at,
   reactions |-> parseReactions(row.reactions)]

\* l.1091-1100: the rows in the order of their rowid, those without a title
\* left out
LoadedMap(table) ==
  LET rows == [i \in 1..Cardinality(DOMAIN table) |->
                 table[CHOOSE slug \in DOMAIN table : table[slug].rowid = i]]
      whole == SelectSeq(rows, LAMBDA row : row.title # <<>>)
  IN [i \in 1..Len(whole) |-> mapDbBlog(whole[i])]

\* l.1121-1133: the row that is bound to the INSERT
BlogRow(finalEntry) ==
  [rowid |-> 0,
   slug |-> finalEntry.slug,
   title |-> finalEntry.title,
   description |-> finalEntry.description,
   content |-> finalEntry.content,
   author |-> finalEntry.author,
   author_url |-> finalEntry.authorUrl,
   created_at |-> finalEntry.createdAt,
   modified_at |-> finalEntry.modifiedAt,
   reactions |-> StringifyState([counts |-> finalEntry.reactions, ipMap |-> NoProperties])]

\* INSERT OR REPLACE: the row takes the place of the one with its slug
InsertOrReplace(table, row) ==
  [slug \in DOMAIN table \cup {row.slug} |->
     IF slug # row.slug THEN table[slug]
     ELSE [row EXCEPT !.rowid = IF slug \in DOMAIN table THEN table[slug].rowid
                                 ELSE Cardinality(DOMAIN table) + 1]]

\* l.1121: INSERT OR IGNORE, slug being the primary key
InsertOrIgnore(table, row) ==
  IF row.slug \in DOMAIN table THEN table ELSE InsertOrReplace(table, row)

\* the slugs of a Map
SlugsOf(blogMap) == {blogMap[i].slug : i \in 1..Len(blogMap)}

\* l.1108-1111: the slugs that the loop can end with
FreeSlugs(entry, blogMap) ==
  IF entry.slug \notin SlugsOf(blogMap) THEN {entry.slug}
  ELSE {entry.slug \o <<"-">> \o id : id \in ShortIds} \ SlugsOf(blogMap)

\* a row that an earlier invocation has seeded from Post1 and that a reader
\* has reacted to since
ReadRow ==
  [InsertOrReplace(NoRows, BlogRow(BlogEntry(Post1, 1)))[<<"p", "o", "s", "t">>]
     EXCEPT !.modified_at = 3,
            !.reactions = StringifyState(
               [counts |-> Set(NoProperties, X, Number(1)),
                ipMap |-> Set(NoProperties, sha256("ip1"),
                              [emoji |-> X, ts |-> 3, ip |-> sha256("ip1")])])]

Sites == {NoSite, "https://club.example"}

besideBlog ==
  <<clock, fallbackRepoUrls, canUseD1, memoryCache, rateLimitUntil, github_cache,
    pass, lastReturn, started, last429, repo_activity_cache, act, merge, react, norm,
    contact>>

\* l.979-1070: the files of the wiki and their entries
WikiPosts ==
  /\ wiki.pc = "idle"
  /\ wiki.passes < MaxBlogPasses
  /\ \E q \in Procs, source \in WikiListings :
       wiki' = [wiki EXCEPT
         !.pc = "load", !.proc = q, !.source = source,
         !.wikiBlogEntries =
            byCreatedAt([i \in 1..Len(source) |-> BlogEntry(source[i], clock)]),
         !.blogMap = <<>>, !.at = 1, !.passes = @ + 1, !.before = blogs,
         !.loaded = <<>>, !.clean = FALSE,
         !.settled = wiki.clean /\ wiki.source = source]
  /\ UNCHANGED blogs
  /\ UNCHANGED besideBlog

\* l.1072-1104: the rows of the table into the Map
LoadBlogs ==
  /\ wiki.pc = "load"
  /\ \E ok \in BOOLEAN :
       /\ (~canUseD1[wiki.proc] => ~ok)
       /\ LET blogMap == IF ok THEN LoadedMap(blogs) ELSE <<>>
          IN wiki' = [wiki EXCEPT !.pc = "seed", !.blogMap = blogMap,
                                  !.loaded = blogMap, !.clean = ok]
  /\ UNCHANGED blogs
  /\ UNCHANGED besideBlog

\* l.1107-1139: one turn of the loop
SeedEntry ==
  /\ wiki.pc = "seed"
  /\ wiki.at <= Len(wiki.wikiBlogEntries)
  /\ LET entry == wiki.wikiBlogEntries[wiki.at]
     IN \E slug \in FreeSlugs(entry, wiki.blogMap), ok \in BOOLEAN :
          LET finalEntry == [entry EXCEPT !.slug = slug]
          IN /\ (~canUseD1[wiki.proc] => ~ok)
             /\ wiki' = [wiki EXCEPT
                  !.blogMap = IF slug \notin SlugsOf(@) THEN Append(@, finalEntry) ELSE @,
                  !.at = @ + 1,
                  !.clean = @ /\ ok]
             /\ blogs' = IF ok THEN InsertOrIgnore(blogs, BlogRow(finalEntry)) ELSE blogs
  /\ UNCHANGED besideBlog

\* l.1141-1161: the posts sorted, each with the site of its author
BlogPosts ==
  /\ wiki.pc = "seed"
  /\ wiki.at > Len(wiki.wikiBlogEntries)
  /\ LET sorted == byCreatedAt(wiki.blogMap)
         authors == {sorted[i].author : i \in 1..Len(sorted)}
     IN \E authorWebsites \in [authors -> Sites] :
          wiki' = [wiki EXCEPT
            !.pc = "idle",
            !.blogPosts = [i \in 1..Len(sorted) |->
               [sorted[i] EXCEPT !.authorUrl =
                  IF authorWebsites[sorted[i].author] # NoSite
                    THEN authorWebsites[sorted[i].author] ELSE @]]]
  /\ UNCHANGED blogs
  /\ UNCHANGED besideBlog

InitBlog ==
  /\ clock = T0
  /\ fallbackRepoUrls = <<>>
  /\ canUseD1 = [q \in Procs |-> q = "w1"]
  /\ memoryCache = [q \in Procs |-> [timestamp |-> 0, payload |-> NullPayload]]
  /\ rateLimitUntil = [q \in Procs |-> 0]
  /\ github_cache = <<>>
  /\ pass = [s \in Slots |-> IdlePass]
  /\ lastReturn = Returned(IdlePass)
  /\ started = 0
  /\ last429 = [q \in Procs |-> FALSE]
  /\ InitNoActivity
  /\ InitNoMerge
  /\ blogs \in {NoRows, InsertOrReplace(NoRows, ReadRow)}
  /\ react = IdleReact
  /\ wiki = IdleWiki
  /\ norm = IdleNorm
  /\ contact = IdleContact

NextBlog ==
  \/ WikiPosts
  \/ LoadBlogs
  \/ SeedEntry
  \/ BlogPosts

SpecBlog == InitBlog /\ [][NextBlog]_vars

\* ------------------------------------------------------------------- C27
\* a post has the title, the content, the author, the timestamps and the
\* reaction counts of a row
SameAsRow(post, row) ==
  /\ post.title = row.title
  /\ post.content = row.content
  /\ post.author = row.author
  /\ post.createdAt = row.created_at
  /\ post.modifiedAt = row.modified_at
  /\ \A emoji \in {X, Y, valueOf} :
       CountOf([counts |-> post.reactions], emoji)
         = CountOf(parseReactionState(row.reactions), emoji)

\* C27: seeding an entry of the wiki whose slug is there already alters no
\* entry that is there: every row of the table stays as it is, and every
\* entry that load has read from the table is returned once in blogPosts,
\* with the title, content, author, timestamps and reaction counts of its row.
C27_ExistingEntriesKept ==
  [][/\ \A slug \in DOMAIN blogs : slug \in DOMAIN blogs' /\ blogs'[slug] = blogs[slug]
     /\ wiki.pc = "seed" /\ wiki'.pc = "idle" =>
          \A i \in 1..Len(wiki.loaded) :
            LET slug == wiki.loaded[i].slug
                found == {j \in 1..Len(wiki'.blogPosts) : wiki'.blogPosts[j].slug = slug}
            IN /\ Cardinality(found) = 1
               /\ \A j \in found : SameAsRow(wiki'.blogPosts[j], blogs[slug])]_vars

\* load has returned the post that a reader has reacted to as it is in the
\* table, and next to it, under a longer slug, the newer text that the wiki
\* has for the same slug
C27_Witness ==
  /\ wiki.pc = "idle"
  /\ Post2 \in {wiki.source[i] : i \in 1..Len(wiki.source)}
  /\ <<"p", "o", "s", "t">> \in DOMAIN wiki.before
  /\ \E i, j \in 1..Len(wiki.blogPosts) :
       /\ wiki.blogPosts[i].slug = <<"p", "o", "s", "t">>
       /\ wiki.blogPosts[i].content = "v1"
       /\ CountOf([counts |-> wiki.blogPosts[i].reactions], X) = 1
       /\ wiki.blogPosts[j].slug \in FreeSlugs(BlogEntry(Post2, clock), wiki.loaded)
       /\ wiki.blogPosts[j].content = "v2"
  /\ blogs[<<"p", "o", "s", "t">>] = ReadRow

\* ------------------------------------------------------------------- C30
\* C30: the merge is idempotent over an unchanged wiki: an invocation that
\* finds the files that the one before it has seeded into the table inserts
\* no row, and the blogPosts it returns are no more than those returned before.
C30_SecondPassAddsNothing ==
  [][wiki.pc = "seed" /\ wiki'.pc = "idle" /\ wiki.settled /\ wiki.clean =>
       /\ DOMAIN blogs' = DOMAIN wiki.before
       /\ Len(wiki'.blogPosts) <= Len(wiki.blogPosts)]_vars

\* ------------------------------------------------------------------- C31
\* the step attaches the cached series of the repo and enters no fetcher
HitsActivityCache ==
  /\ ChecksActivity
  /\ act'.pc = "idle"
  /\ act'.activity.present

\* C31: no series is attached to repoStats as a cache hit more than 2 days
\* after an invocation of load got it from upstream, also when invocations
\* in between tried to refresh it, failed and used it again.
C31_HardExpiredByAgeOfData ==
  [][HitsActivityCache => act'.activityFetchTime - act'.obtainedAt <= TwoDays]_vars

\* ------------------------------------------------------------------- C32
\* the step starts a pass in process q
StartsIn(q) ==
  /\ started' = started + 1
  /\ \/ \E s \in Slots : pass'[s].id = started' /\ pass'[s].proc = q
     \/ lastReturn'.id = started' /\ lastReturn'.proc = q

\* C32: a pass of a process without a persisted store that starts in the
\* cooldown window of a pass that tripped the guard and stored its payload
\* in memory returns at once the payload in the memory cache (l.446), never
\* the placeholder list (l.474): the memory cache is fresh for the whole
\* window.
C32_MemoryCoversCooldown ==
  [][\A q \in Procs :
       (StartsIn(q) /\ ~canUseD1[q] /\ clock < rateLimitUntil[q]) =>
         /\ lastReturn'.id = started'
         /\ lastReturn'.ret = 446
         /\ lastReturn'.result = memoryCache[q].payload]_vars

\* ------------------------------------------------------------------- C33
\* C33 as stated: memoryCache.timestamp never decreases, and the payload of
\* a pass is never replaced by the payload of a pass that started before it.
C33_LastStartedWins ==
  [][\A q \in Procs :
       /\ memoryCache'[q].timestamp >= memoryCache[q].timestamp
       /\ memoryCache'[q].payload.id >= memoryCache[q].payload.id]_vars

\* the step is l.1186-1192 of the pass in slot s: it stores its payload
StoresPayload(s) ==
  /\ pass[s].pc = "finish"
  /\ \/ pass'[s].pc = "persist"
     \/ pass'[s].pc = "idle" /\ lastReturn'.id = pass[s].id /\ lastReturn'.ret = 1212

\* C33, amended: the last writer wins. A pass that stores its payload leaves
\* the memory cache of its process with that payload and with the time at
\* which the pass started, whatever the cache held; when passes overlap this
\* can be the payload and the earlier start time of the pass that started
\* first.
C33_LastWriterWins ==
  [][\A s \in Slots :
       StoresPayload(s) =>
         /\ memoryCache'[pass[s].proc].payload = payloadOf(pass[s].id)
         /\ memoryCache'[pass[s].proc].timestamp = pass[s].now]_vars

\* the second pass of worker w1 has stored its payload and returned; the
\* first, begun a tick earlier, has stored its own since, and the memory
\* cache holds that one
C33_Witness ==
  /\ lastReturn.id = 2 /\ lastReturn.proc = "w1" /\ lastReturn.ret = 1212
  /\ \E s \in Slots :
       /\ pass[s].id = 1 /\ pass[s].proc = "w1" /\ pass[s].pc = "persist"
       /\ pass[s].now < clock
       /\ memoryCache["w1"] = [payload |-> payloadOf(1), timestamp |-> pass[s].now]

\* ------------------------------------------------------------------- C34
ActorKeys == {sha256(ip) : ip \in Ips}

\* C34 as stated: whatever the actor does, the emoji recorded for the actor
\* is not another one than the one before it less than 3 seconds after that
\* one was set.
C34_NoChangeWithinCooldown ==
  \A key \in ActorKeys :
    (/\ HasEmoji(Persisted, key)
     /\ key \in DOMAIN react.was
     /\ react.was[key].emoji # EmojiOf(Persisted, key))
      => ChangedAt(Persisted, key) - react.was[key].ts >= ThreeSeconds

\* C34, amended: the cooldown holds back the switch only. No single react
\* action replaces the emoji recorded for an actor by another one less than
\* 3 seconds after it was set; a toggle-off and a new reaction are not held
\* back, so by these two the emoji of the actor goes from X to Y at once.
C34_NoSwitchWithinCooldown ==
  [][\A key \in ActorKeys :
       (/\ HasEmoji(Persisted, key)
        /\ HasEmoji(Persisted', key)
        /\ EmojiOf(Persisted', key) # EmojiOf(Persisted, key))
         => clock - ChangedAt(Persisted, key) >= ThreeSeconds]_vars

\* an actor has switched from X to Y exactly 3 seconds after X was set
C34_Witness ==
  \E key \in ActorKeys :
    /\ key \in DOMAIN react.was
    /\ EmojiOf(Persisted, key) = Y
    /\ react.was[key] = [emoji |-> X, ts |-> ChangedAt(Persisted, key) - ThreeSeconds,
                         toggled |-> FALSE]

\* ------------------------------------------------------------------- C35
\* C35: in every assembled payload contributors is the number of entries of
\* orgMembers, and memberDetails has one entry per entry of orgMembers, in
\* the order of the listing, whichever of the two listings gave the members.
C35_OneDetailPerMember ==
  Assembled =>
    LET p == merge.payload
    IN /\ p.githubStats.contributors = Len(p.orgMembers)
       /\ Len(p.memberDetails) = Len(p.orgMembers)
       /\ \A i \in 1..Len(p.orgMembers) : p.memberDetails[i].login = p.orgMembers[i]

\* the part of C35 that the code keeps: the count, and the details of the
\* members that the first listing gave
C35_CountOfMembers ==
  Assembled =>
    /\ merge.payload.githubStats.contributors = Len(merge.payload.orgMembers)
    /\ Len(merge.payload.memberDetails) \in {0, Len(merge.payload.orgMembers)}

\* ------------------------------------------------------------------- C36
StillGenerating == Result(FALSE, 202)

\* a GET .../stats/commit_activity is answered
StatsAnswered == act.pc = "stats" /\ act'.calledStats /\ act'.passes = act.passes

\* C36: in an invocation of load the stats endpoint is asked at most 3 times
\* for the repo, again only after a 202; the same delay is slept between two
\* attempts and none after the last; the first answer that is not a 202 ends
\* the function; and the function returns status 202, not ok, exactly when
\* three answers were 202.
C36_RetriesOn202Only ==
  [][StatsAnswered =>
       LET requests == Append(act.requests, act'.lastStatus)
           again == act'.pc = "stats"
       IN /\ Len(requests) <= attempts
          /\ \A i \in 1..Len(act.requests) : act.requests[i] = 202
          /\ again <=> act'.lastStatus = 202 /\ Len(requests) < attempts
          /\ again => act'.requests = requests
          /\ act'.slept = IF again THEN sleepMs ELSE 0
          /\ act'.result = StillGenerating <=> requests = [i \in 1..attempts |-> 202]
          /\ act'.lastStatus \notin {0, 202} =>
               /\ act'.result.returned
               /\ act'.result.status = act'.lastStatus
               /\ act'.result.ok <=> act'.lastStatus = 200]_vars

\* three answers were 202: nothing is slept after the third, and still
\* generating is reported
C36_Witness ==
  /\ act.primary = "generating"
  /\ act.lastStatus = 202
  /\ act.slept = 0
  /\ act.result = StillGenerating

\* ------------------------------------------------------------------- C37
\* the function has returned: the listing is over, and no fetch rejected
ListingReturned ==
  /\ act.pc = "idle"
  /\ act.calledCommits
  /\ ~act.pages[Len(act.pages)].rejected

\* the commits on the pages read whose age in days is d
CommitsOfAge(d) ==
  Cardinality({i \in 1..Len(act.counted) :
                 act.counted[i].dated /\ act.counted[i].age \div DaySeconds = d})

\* C37: at most 5 pages of commits are requested, a page after the first
\* only if the one before it was OK, not empty and had a next page; what is
\* returned has 60 counts, the newest day last, entry 59 - d being the number
\* of commits read whose age in whole days is d; commits of another age or
\* without a date are in no count.
C37_SixtyDailyCounts ==
  /\ Len(act.pages) <= maxPages
  /\ \A k \in 2..Len(act.pages) :
       /\ act.pages[k - 1].ok
       /\ ~act.pages[k - 1].empty
       /\ act.pages[k - 1].next
  /\ ListingReturned =>
       /\ act.activity.present
       /\ Len(act.activity.series) = days
       /\ \A d \in 0..(days - 1) : act.activity.series[(days - 1 - d) + 1] = CommitsOfAge(d)

\* five pages were read, each with commits of the first day, of the last day
\* of the window, of the day before the window, of the future and undated
C37_Witness ==
  /\ ListingReturned
  /\ Len(act.pages) = maxPages
  /\ Len(act.counted) = 6 * maxPages
  /\ act.activity.series[days] = 2 * maxPages
  /\ act.activity.series[1] = maxPages

\* ------------------------------------------------------------------- C38
\* One invocation of load, from the activity of the repo to the blog posts,
\* the while loop of l.1109 followed turn by turn.

\* slug of l.1108-1110 where the loop is
Candidate == IF wiki.slug = <<>> THEN wiki.wikiBlogEntries[wiki.at].slug ELSE wiki.slug

\* l.1109-1111: a turn of the while loop, shortId returning any of its tokens
TrySlug ==
  /\ wiki.pc = "seed"
  /\ wiki.at <= Len(wiki.wikiBlogEntries)
  /\ Candidate \in SlugsOf(wiki.blogMap)
  /\ \E id \in ShortIds :
       wiki' = [wiki EXCEPT !.slug = wiki.wikiBlogEntries[wiki.at].slug \o <<"-">> \o id]
  /\ UNCHANGED blogs
  /\ UNCHANGED besideBlog

\* l.1112-1139: the loop has ended, the entry is set and inserted
SeedSlug ==
  /\ wiki.pc = "seed"
  /\ wiki.at <= Len(wiki.wikiBlogEntries)
  /\ Candidate \notin SlugsOf(wiki.blogMap)
  /\ \E ok \in BOOLEAN :
       LET finalEntry == [wiki.wikiBlogEntries[wiki.at] EXCEPT !.slug = Candidate]
       IN /\ (~canUseD1[wiki.proc] => ~ok)
          /\ wiki' = [wiki EXCEPT
               !.blogMap = IF finalEntry.slug \notin SlugsOf(@) THEN Append(@, finalEntry) ELSE @,
               !.at = @ + 1,
               !.slug = <<>>,
               !.clean = @ /\ ok]
          /\ blogs' = IF ok THEN InsertOrIgnore(blogs, BlogRow(finalEntry)) ELSE blogs
  /\ UNCHANGED besideBlog

\* the invocation begins: l.791-855
BeginPass == act.passes = 0 /\ ActivityBegin

\* l.863-975, the stats endpoint delivering no more than a week
PassStats == ActivityStats /\ Len(act'.weeks) <= 1

\* the activity of the repo is settled, the invocation goes on to l.979,
\* the wiki having Post1
GoOnToBlogs ==
  /\ act.passes = 1 /\ act.pc = "idle"
  /\ wiki.passes = 0
  /\ WikiPosts
  /\ wiki'.proc = act.proc
  /\ Len(wiki'.source) > 0 /\ wiki'.source[1] = Post1

\* the table as invocations before this one have left it: Post1 seeded up
\* to twice, shortId having returned this token; the tokens left are as many
\* as the entries of a listing
TakenIds == << <<"1">> >>
Seeded(k) == [i \in 1..k |->
                [BlogEntry(Post1, 1) EXCEPT
                   !.slug = IF i = 1 THEN @ ELSE @ \o <<"-">> \o TakenIds[i - 1]]]
RECURSIVE Inserted(_)
Inserted(entries) ==
  IF entries = <<>> THEN NoRows
  ELSE InsertOrIgnore(Inserted(SubSeq(entries, 1, Len(entries) - 1)),
                      BlogRow(entries[Len(entries)]))

InitPass ==
  /\ clock = T0
  /\ fallbackRepoUrls = <<>>
  /\ canUseD1 = [q \in Procs |-> q = "w1"]
  /\ memoryCache = [q \in Procs |-> [timestamp |-> 0, payload |-> NullPayload]]
  /\ rateLimitUntil = [q \in Procs |-> 0]
  /\ github_cache = <<>>
  /\ pass = [s \in Slots |-> IdlePass]
  /\ lastReturn = Returned(IdlePass)
  /\ started = 0
  /\ last429 = [q \in Procs |-> FALSE]
  /\ InitNoActivity
  /\ InitNoMerge
  /\ blogs \in {Inserted(Seeded(k)) : k \in 0..(Len(TakenIds) + 1)}
  /\ react = IdleReact
  /\ wiki = IdleWiki
  /\ norm = IdleNorm
  /\ contact = IdleContact

NextPass ==
  \/ BeginPass
  \/ PassStats
  \/ ActivityCommits
  \/ GoOnToBlogs
  \/ LoadBlogs
  \/ TrySlug
  \/ SeedSlug
  \/ BlogPosts

\* shortId returns a token that the Map has no slug with
FreshSlug == TrySlug /\ wiki'.slug \notin SlugsOf(wiki.blogMap)

\* load is sequential, and the call that it awaits returns: in the loops,
\* where a step is taken from and taken to; shortId does not return taken
\* tokens for ever
SpecPass ==
  /\ InitPass
  /\ [][NextPass]_vars
  /\ WF_vars(BeginPass)
  /\ WF_vars(PassStats)
  /\ WF_vars(ActivityCommits)
  /\ WF_vars(LoadBlogs)
  /\ WF_vars(FreshSlug)
  /\ WF_vars(SeedSlug)

\* load awaits the files of the wiki (l.979-1070), the sites of the authors
\* (l.1141-1161): one step each, taken from nowhere else
AwaitsWiki == act.passes = 1 /\ act.pc = "idle" /\ wiki.passes = 0
AwaitsSites == wiki.pc = "seed" /\ wiki.at > Len(wiki.wikiBlogEntries)

PassCompleted ==
  /\ act.passes = 1 /\ act.pc = "idle"
  /\ wiki.passes = 1 /\ wiki.pc = "idle"

Digest(text) == <<"sha256", text>>
IsDigest(value) == Len(value) = 2 /\ value[1] = "sha256"

\* the emoji texts that a request can carry
EmojiTexts == {trim(body.text) : body \in {b \in Emojis : b.isString}}

\* the state has the reactions by digest only, and a response has counts by
\* emoji and an emoji, or none
ByDigest(state) ==
  \A key \in DOMAIN state.ipMap :
    /\ IsDigest(key)
    /\ state.ipMap[key].ip = key
    /\ state.ipMap[key].emoji \in EmojiTexts
OfEmojis(response) ==
  /\ DOMAIN response.counts \subseteq EmojiTexts
  /\ response.userReaction \in EmojiTexts \cup {NoEmoji}

\* C39: the actor of a request is the hash of its client address. What is
\* stored and what is answered has the address as its hash only, never as
\* it is, and requests from one address act on one entry, that of its hash.
C39_ActorIsHashOfAddress ==
  [][/\ ByDigest(Persisted')
     /\ OfEmojis(react'.last.response)
     /\ \A s \in ReqSlots :
          /\ OfEmojis(react'.req[s].response)
          /\ Answers(s, 200) =>
               LET key == Digest(react.req[s].ip)
                   reaction == react'.req[s].response.userReaction
               IN /\ HasEmoji(Persisted', key) <=> reaction # NoEmoji
                  /\ EmojiOf(Persisted', key) = reaction
                  /\ \A other \in DOMAIN Persisted'.ipMap \ {key} :
                       /\ other \in DOMAIN ReadBy(s).ipMap
                       /\ Persisted'.ipMap[other] = ReadBy(s).ipMap[other]]_vars

\* two addresses have reacted: the state has an entry for the digest of
\* each, and the last request was answered with the emoji of its own
C39_Witness ==
  /\ DOMAIN Persisted.ipMap = {Digest(ip) : ip \in Ips}
  /\ react.last.method = "POST"
  /\ react.last.response.status = 200
  /\ react.last.response.userReaction = Y
  /\ \E ip \in Ips : Persisted.ipMap[Digest(ip)].emoji = X

\* ======================================================================
\* The contact endpoint (part_001 l.1-112): POST stores a request unless one
\* with its email or its GitHub handle is stored.  Requests are served at
\* the same time; a request runs from one await to the next in one step.
\* Texts are sequences of pieces as above.
\* ======================================================================
MaxContactPosts == 2      \* POST requests in one behaviour

\* String.prototype.toLowerCase of a text
lowerCased(text) == [i \in 1..Len(text) |-> toLowerCase(text[i])]

NullGithub == [null |-> TRUE, username |-> <<>>, url |-> <<>>]

\* l.11: the match of /^https?:\/\/(www\.)?github\.com\//i, if there is one
GithubPrefix(text) ==
  LET host == IF hasScheme(text) THEN SubSeq(text, 4, Len(text)) ELSE <<>>
      www == Len(host) >= 2 /\ toLowerCase(host[1]) = "www" /\ host[2] = "."
      rest == IF www THEN SubSeq(host, 3, Len(host)) ELSE host
      matches == /\ Len(rest) >= 4
                 /\ toLowerCase(rest[1]) = "github" /\ rest[2] = "."
                 /\ toLowerCase(rest[3]) = "com" /\ rest[4] = "/"
  IN IF matches THEN Len(text) - Len(rest) + 4 ELSE 0

\* l.7-20
normalizeGithub(value) ==
  LET trimmed == trim(value)
      unprefixed == SubSeq(trimmed, GithubPrefix(trimmed) + 1, Len(trimmed))
      cleaned == IF unprefixed # <<>> /\ Head(unprefixed) = "@"
                   THEN Tail(unprefixed) ELSE unprefixed
      username == trim(Before(cleaned, {"/", "?", "#"}))
      normalizedUsername == lowerCased(username)
  IN IF trimmed = <<>> \/ username = <<>> THEN NullGithub
     ELSE [null |-> FALSE, username |-> normalizedUsername,
           url |-> Https \o GithubCom \o <<"/">> \o normalizedUsername]

\* payload.name, payload.email, payload.github of a request
ContactNames == {<<>>, <<"Ann">>}
ContactEmails == {<<>>, <<"Ann", "@x">>, <<"ann", "@x">>, <<Blank, "bob", "@x">>}
GithubValues ==
  {<<Blank>>, <<"@">>,
   <<"HTTPS:", "/", "/", "www", ".", "GitHub", ".", "com", "/", "Ann", "/">>,
   <<"@", "ann">>, <<"ann", "?", "tab">>, <<"bob">>}

\* l.72-77: the SELECT finds a row
Duplicate(rows, normalizedEmail, normalizedGithubUrl) ==
  \E i \in 1..Len(rows) :
    \/ lowerCased(rows[i].email) = normalizedEmail
    \/ lowerCased(rows[i].github_url) = normalizedGithubUrl
    \/ lowerCased(rows[i].github_url) = normalizedGithubUrl \o <<"/">>

besideContact ==
  <<clock, fallbackRepoUrls, canUseD1, memoryCache, rateLimitUntil, github_cache,
    pass, lastReturn, started, last429, repo_activity_cache, act, merge, blogs, react,
    wiki, norm>>

\* l.22-89: the request is refused, or a duplicate is looked for; db is the
\* binding, thrown a statement that rejects
ContactCheck(s) ==
  /\ contact.req[s].pc = "idle"
  /\ contact.posts < MaxContactPosts
  /\ \E db \in BOOLEAN, thrown \in BOOLEAN,
        payloadName \in ContactNames, payloadEmail \in ContactEmails,
        payloadGithub \in GithubValues :
       LET name == trim(payloadName)
           email == trim(payloadEmail)
           github == trim(payloadGithub)
           normalizedGithub == normalizeGithub(github)
           normalizedEmail == lowerCased(email)
           normalizedGithubUrl == lowerCased(normalizedGithub.url)
           status == IF ~db THEN 503
                     ELSE IF name = <<>> \/ email = <<>> \/ github = <<>> THEN 400
                     ELSE IF normalizedGithub.null THEN 400
                     ELSE IF thrown THEN 500
                     ELSE IF Duplicate(contact.rows, normalizedEmail, normalizedGithubUrl)
                       THEN 409
                     ELSE 0
       IN contact' =
            [contact EXCEPT
               !.posts = @ + 1,
               !.overlapped = @ \/ (status = 0 /\ \E o \in ReqSlots : contact.req[o].pc = "insert"),
               !.req[s] = IF status # 0 THEN [IdlePost EXCEPT !.status = status]
                          ELSE [pc |-> "insert", name |-> name, email |-> email,
                                github_url |-> normalizedGithub.url, status |-> 0]]
  /\ UNCHANGED besideContact

\* l.91-111: the row is inserted, or the INSERT rejects
ContactInsert(s) ==
  /\ contact.req[s].pc = "insert"
  /\ \E thrown \in BOOLEAN :
       LET request == contact.req[s]
       IN contact' =
            [contact EXCEPT
               !.rows = IF thrown THEN @
                        ELSE Append(@, [name |-> request.name, email |-> request.email,
                                        github_url |-> request.github_url]),
               !.req[s] = [request EXCEPT !.pc = "idle",
                                          !.status = IF thrown THEN 500 ELSE 200]]
  /\ UNCHANGED besideContact

InitContact ==
  /\ clock = T0
  /\ fallbackRepoUrls = <<>>
  /\ canUseD1 = [q \in Procs |-> q = "w1"]
  /\ memoryCache = [q \in Procs |-> [timestamp |-> 0, payload |-> NullPayload]]
  /\ rateLimitUntil = [q \in Procs |-> 0]
  /\ github_cache = <<>>
  /\ pass = [s \in Slots |-> IdlePass]
  /\ lastReturn = Returned(IdlePass)
  /\ started = 0
  /\ last429 = [q \in Procs |-> FALSE]
  /\ InitNoActivity
  /\ InitNoMerge
  /\ InitNoBlogs

NextContact ==
  \/ \E s \in ReqSlots : ContactCheck(s)
  \/ \E s \in ReqSlots : ContactInsert(s)

SpecContact == InitContact /\ [][NextContact]_vars

\* ------------------------------------------------------------------- C40
\* C40: whatever POST requests are made to the contact endpoint, and however
\* they overlap, no two rows of contact_requests have the same email in
\* lower case or the same GitHub URL.
C40_NoDuplicateRows ==
  \A i \in 1..Len(contact.rows), j \in 1..Len(contact.rows) :
    i < j =>
      /\ lowerCased(contact.rows[i].email) # lowerCased(contact.rows[j].email)
      /\ contact.rows[i].github_url # contact.rows[j].github_url

\* the part of C40 that the code keeps: the same of requests of which none
\* has looked for a duplicate between the look and the INSERT of another
C40_NoDuplicateRowsInTurn == ~contact.overlapped => C40_NoDuplicateRows

\* of requests made in turn one is stored, and one was answered 409
C40_InTurnWitness ==
  /\ ~contact.overlapped
  /\ Len(contact.rows) = 1
  /\ \E s \in ReqSlots : contact.req[s].status = 409

====
